---- MODULE Spec2Model ----
(***************************************************************************)
(* Question type registry and evaluation engine of the quiz platform.      *)
(*                                                                         *)
(* The module models the completion scorer (calculateCompletionScore), the *)
(* response validators, the registry dispatch and the results computation  *)
(* that calls them.  JavaScript values are tagged records:                 *)
(*   [t |-> "undef"], [t |-> "null"], [t |-> "num", n |-> 1],              *)
(*   [t |-> "str", s |-> <<"a", "b">>], [t |-> "str", id |-> "blank-1"],   *)
(*   [t |-> "arr", a |-> <<...>>],                                         *)
(*   [t |-> "obj", e |-> <<[k |-> key, v |-> value], ...>>]                *)
(* An object keeps its own fields in insertion order, as Object.entries    *)
(* enumerates them.  Answer text is a sequence of one-character strings,   *)
(* so that trim() and toLowerCase() are computed; identifier-like strings  *)
(* (blank ids, type tags) are atoms that are only compared and             *)
(* interpolated.  The text JSON.stringify(v) produces is                   *)
(* [t |-> "str", enc |-> v]; every other string of the model is spelled    *)
(* with letters and blanks only and is therefore not JSON.                 *)
(***************************************************************************)
EXTENDS Integers, Sequences, FiniteSets, TLC

VARIABLES
  types,        \* QuestionTypeRegistry.types: tag -> name of the config object
  configs,      \* the registered config objects, by name
  question,     \* the question handed to the scorer
  response,     \* the response handed to the scorer
  userAnswers,  \* the scorer's local: the answer list it settled on
  graded,       \* the scorer's locals of blanks.forEach, one record per blank
  result,       \* what the scorer returned or raised
  quiz,         \* what a results computation starts from
  run,          \* the locals of a results computation
  formatters,   \* ResultDisplayRegistry.formatters: tag -> name of the formatter
  display,      \* what a registry lookup or a formatter call returned or raised
  pc

vars ==
  <<types, configs, question, response, userAnswers, graded, result, quiz, run,
    formatters, display, pc>>

(***************************************************************************)
(* Bounds of the model.                                                    *)
(***************************************************************************)
MaxBlanks == 2
MaxAnswers == 2
MaxShapes == 2
MaxTextLen == 2
MaxAccepted == 2
MaxAlternatives == 2
MaxFeedbackBlanks == 10
MaxSets == 2
MaxResponses == 2

(***************************************************************************)
(* JavaScript values.                                                      *)
(***************************************************************************)
Undef == [t |-> "undef"]
Null == [t |-> "null"]
Num(n) == [t |-> "num", n |-> n]
Str(s) == [t |-> "str", s |-> s]
Id(a) == [t |-> "str", id |-> a]
Arr(items) == [t |-> "arr", a |-> items]
Obj(entries) == [t |-> "obj", e |-> entries]
JsonText(v) == [t |-> "str", enc |-> v]

Field(k, v) == [k |-> k, v |-> v]

IsString(v) == v.t = "str"
IsArray(v) == v.t = "arr"
IsObject(v) == v.t \in {"obj", "arr", "null"}
IsNullish(v) == v.t \in {"undef", "null"}

Truthy(v) ==
  CASE v.t = "undef" -> FALSE
    [] v.t = "null" -> FALSE
    [] v.t = "num" -> v.n # 0
    [] v.t = "str" -> IF "enc" \in DOMAIN v THEN TRUE
                      ELSE IF "id" \in DOMAIN v THEN v.id # ""
                      ELSE v.s # <<>>
    [] OTHER -> TRUE

HasOwn(o, k) == o.t = "obj" /\ \E i \in 1..Len(o.e) : o.e[i].k = k

Get(o, k) ==
  IF HasOwn(o, k)
  THEN o.e[CHOOSE i \in 1..Len(o.e) : o.e[i].k = k].v
  ELSE Undef

(***************************************************************************)
(* String.prototype.trim and String.prototype.toLowerCase.                 *)
(***************************************************************************)
IsSpace(c) == c \in {" ", "\t", "\n"}

LowerOf ==
  [A |-> "a", B |-> "b", C |-> "c", D |-> "d", E |-> "e", F |-> "f",
   G |-> "g", H |-> "h", I |-> "i", J |-> "j", K |-> "k", L |-> "l",
   M |-> "m", N |-> "n", O |-> "o", P |-> "p", Q |-> "q", R |-> "r",
   S |-> "s", T |-> "t", U |-> "u", V |-> "v", W |-> "w", X |-> "x",
   Y |-> "y", Z |-> "z"]

Lower(c) == IF c \in DOMAIN LowerOf THEN LowerOf[c] ELSE c

toLowerCase(s) == [i \in 1..Len(s) |-> Lower(s[i])]

RECURSIVE trimStart(_)
trimStart(s) ==
  IF s = <<>> THEN s
  ELSE IF IsSpace(Head(s)) THEN trimStart(Tail(s)) ELSE s

RECURSIVE trimEnd(_)
trimEnd(s) ==
  IF s = <<>> THEN s
  ELSE IF IsSpace(s[Len(s)]) THEN trimEnd(SubSeq(s, 1, Len(s) - 1)) ELSE s

trim(s) == trimEnd(trimStart(s))

(***************************************************************************)
(* JSON.parse: the value a JSON text encodes, a SyntaxError for any other  *)
(* text.                                                                   *)
(***************************************************************************)
JSONparse(v) ==
  IF "enc" \in DOMAIN v
  THEN [ok |-> TRUE, v |-> v.enc]
  ELSE [ok |-> FALSE]

(***************************************************************************)
(* The number correctBlanks / totalBlanks, kept as a fraction in lowest    *)
(* terms.  For the blank counts of the model the comparison of the double  *)
(* quotient with the literals 0.7 and 0.4 agrees with the comparison of    *)
(* the fractions: both are correctly rounded and are either equal or       *)
(* further apart than one unit in the last place.                          *)
(***************************************************************************)
RECURSIVE Gcd(_, _)
Gcd(a, b) == IF b = 0 THEN a ELSE Gcd(b, a % b)

Quotient(a, b) == [n |-> a \div Gcd(a, b), d |-> b \div Gcd(a, b)]

Zero == [n |-> 0, d |-> 1]

AtLeast(x, n, d) == x.n * d >= n * x.d

(***************************************************************************)
(* calculateCompletionScore, lines 52-115: the answer list of the          *)
(* response.  The result is [found |-> TRUE, v |-> userAnswers] or         *)
(* [found |-> FALSE] when the scorer takes its no-answers return.          *)
(***************************************************************************)
IsExcludedKey(k) == k \in {"questionIndex", "questionType", "timestamp"}

LooksLikeAnswers(value) ==
  /\ IsArray(value)
  /\ Len(value.a) > 0
  /\ Truthy(value.a[1])
  /\ IsObject(value.a[1])
  /\ (HasOwn(value.a[1], "blankId") \/ HasOwn(value.a[1], "value"))

HoldsAnswers(value) ==
  /\ Truthy(value)
  /\ IsObject(value)
  /\ HasOwn(value, "answers")
  /\ IsArray(Get(value, "answers"))

ScanMatches(entry) ==
  /\ ~IsExcludedKey(entry.k)
  /\ (LooksLikeAnswers(entry.v) \/ HoldsAnswers(entry.v))

ScanOwnFields(resp) ==
  LET hits == {i \in 1..Len(resp.e) : ScanMatches(resp.e[i])}
  IN IF hits = {}
     THEN [found |-> FALSE]
     ELSE LET first == CHOOSE i \in hits : \A j \in hits : i <= j
              value == resp.e[first].v
          IN [found |-> TRUE,
              v |-> IF LooksLikeAnswers(value) THEN value ELSE Get(value, "answers")]

ParsedAnswers(text) ==
  LET parsed == JSONparse(text)
  IN IF ~parsed.ok THEN Arr(<<>>)
     ELSE IF IsNullish(parsed.v) THEN Arr(<<>>)
     ELSE IF Truthy(Get(parsed.v, "answers")) /\ IsArray(Get(parsed.v, "answers"))
          THEN Get(parsed.v, "answers")
          ELSE parsed.v

ExtractUserAnswers_ArrayBeforeText(resp) ==
  LET inner == Get(resp, "response")
      direct == Get(resp, "answers")
      text == Get(resp, "answer")
  IN IF Truthy(inner) /\ Truthy(Get(inner, "answers")) /\ IsArray(Get(inner, "answers"))
       THEN [found |-> TRUE, v |-> Get(inner, "answers")]
     ELSE IF Truthy(direct) /\ IsArray(direct)
       THEN [found |-> TRUE, v |-> direct]
     ELSE IF Truthy(inner) /\ IsArray(inner)
       THEN [found |-> TRUE, v |-> inner]
     ELSE IF Truthy(text) /\ IsString(text)
       THEN [found |-> TRUE, v |-> ParsedAnswers(text)]
     ELSE ScanOwnFields(resp)

ExtractUserAnswers(resp) ==
  LET inner == Get(resp, "response")
      direct == Get(resp, "answers")
      text == Get(resp, "answer")
  IN IF Truthy(inner) /\ Truthy(Get(inner, "answers")) /\ IsArray(Get(inner, "answers"))
       THEN [found |-> TRUE, v |-> Get(inner, "answers")]
     ELSE IF Truthy(direct) /\ IsArray(direct)
       THEN [found |-> TRUE, v |-> direct]
     ELSE IF Truthy(text) /\ IsString(text)
       THEN [found |-> TRUE, v |-> ParsedAnswers(text)]
     ELSE IF Truthy(inner) /\ IsArray(inner)
       THEN [found |-> TRUE, v |-> inner]
     ELSE ScanOwnFields(resp)

(***************************************************************************)
(* calculateCompletionScore, lines 122-168: one blank.                     *)
(***************************************************************************)
IndexId(index) == "blank-" \o ToString(index)

BlankIdOf(blank, index) ==
  IF Truthy(blank.id) THEN blank.id ELSE Id(IndexId(index))

IdMatches(answer, blank, index) ==
  LET bid == Get(answer, "blankId")
  IN \/ bid = BlankIdOf(blank, index)
     \/ bid = blank.id
     \/ bid = Id(IndexId(index))

\* userAnswers.find(...): the first matching entry; reading blankId of a
\* null or undefined entry raises a TypeError.
FindAnswer(items, blank, index) ==
  LET stops == {i \in 1..Len(items) :
                  IsNullish(items[i]) \/ IdMatches(items[i], blank, index)}
  IN IF stops = {} THEN [throws |-> FALSE, v |-> Undef]
     ELSE LET first == CHOOSE i \in stops : \A j \in stops : i <= j
          IN IF IsNullish(items[first])
             THEN [throws |-> TRUE]
             ELSE [throws |-> FALSE, v |-> items[first]]

\* index is the zero-based position of the blank.
PickAnswer(items, blank, index) ==
  LET byId == FindAnswer(items, blank, index)
  IN IF byId.throws THEN byId
     ELSE IF ~Truthy(byId.v) /\ index + 1 <= Len(items) /\ Truthy(items[index + 1])
          THEN [throws |-> FALSE, v |-> items[index + 1]]
          ELSE byId

\* The position in userAnswers of the entry graded for the blank, 0 when
\* the blank is graded on no entry.
PickedIndex(items, blank, index) ==
  LET stops == {i \in 1..Len(items) : IdMatches(items[i], blank, index)}
  IN IF stops # {} THEN CHOOSE i \in stops : \A j \in stops : i <= j
     ELSE IF index + 1 <= Len(items) /\ Truthy(items[index + 1]) THEN index + 1
     ELSE 0

\* userAnswer?.value?.trim() || ''
UserValue(userAnswer) ==
  LET value == Get(userAnswer, "value")
  IN IF IsNullish(userAnswer) \/ IsNullish(value)
       THEN [throws |-> FALSE, v |-> <<>>]
     ELSE IF IsString(value)
       THEN [throws |-> FALSE, v |-> trim(value.s)]
     ELSE [throws |-> TRUE]

AcceptedAnswers_PrimaryOnly(blank) ==
  IF Truthy(blank.acceptedAnswers) /\ IsArray(blank.acceptedAnswers)
    THEN blank.acceptedAnswers.a
  ELSE IF Truthy(blank.answer) THEN <<blank.answer>>
  ELSE <<>>

AcceptedAnswers(blank) ==
  IF Truthy(blank.acceptedAnswers) /\ IsArray(blank.acceptedAnswers)
    THEN blank.acceptedAnswers.a
  ELSE IF Truthy(blank.answer)
    THEN <<blank.answer>> \o
         (IF Truthy(blank.alternatives) /\ IsArray(blank.alternatives)
          THEN blank.alternatives.a ELSE <<>>)
  ELSE <<>>

AnswerMatches_AcceptedNotTrimmed(acceptedAnswer, userValue, caseSensitive) ==
  LET normalizedAccepted ==
        IF caseSensitive THEN acceptedAnswer.s ELSE toLowerCase(acceptedAnswer.s)
      normalizedUser ==
        IF caseSensitive THEN userValue ELSE toLowerCase(userValue)
  IN normalizedAccepted = normalizedUser

AnswerMatches(acceptedAnswer, userValue, caseSensitive) ==
  LET normalizedAccepted ==
        IF caseSensitive THEN trim(acceptedAnswer.s)
        ELSE toLowerCase(trim(acceptedAnswer.s))
      normalizedUser ==
        IF caseSensitive THEN userValue ELSE toLowerCase(userValue)
  IN normalizedAccepted = normalizedUser

BlankIsCorrect(blank, userValue) ==
  LET acceptedAnswers == AcceptedAnswers(blank)
  IN \E i \in 1..Len(acceptedAnswers) :
       AnswerMatches(acceptedAnswers[i], userValue, blank.caseSensitive)

\* The body of blanks.forEach for the blank at zero-based position index.
CheckBlank(answers, blank, index) ==
  IF ~IsArray(answers) THEN [throws |-> TRUE]
  ELSE LET picked == PickAnswer(answers.a, blank, index)
       IN IF picked.throws THEN [throws |-> TRUE]
          ELSE LET value == UserValue(picked.v)
               IN IF value.throws THEN [throws |-> TRUE]
                  ELSE [throws |-> FALSE,
                        blankId |-> BlankIdOf(blank, index).id,
                        userValue |-> value.v,
                        isCorrect |-> BlankIsCorrect(blank, value.v)]

(***************************************************************************)
(* calculateCompletionScore, lines 98-114 and 170-197: the evaluation.     *)
(***************************************************************************)
NoAnswersFeedback == "No answers provided - unable to evaluate response."

AllCorrectFeedback == "Excellent! All blanks filled correctly."

OutOf(correctBlanks, totalBlanks) ==
  ToString(correctBlanks) \o " out of " \o ToString(totalBlanks)

GoodWorkFeedback(correctBlanks, totalBlanks) ==
  "Good work! " \o OutOf(correctBlanks, totalBlanks) \o " blanks correct."

PartialCreditFeedback(correctBlanks, totalBlanks) ==
  "Partial credit. " \o OutOf(correctBlanks, totalBlanks)
    \o " blanks correct. Review the incorrect answers."

MorePracticeFeedback(correctBlanks, totalBlanks) ==
  "More practice needed. Only " \o OutOf(correctBlanks, totalBlanks)
    \o " blanks correct."

CompletionScore_AllOrNothing(correctBlanks, totalBlanks) ==
  IF totalBlanks > 0 /\ correctBlanks > 0 THEN Quotient(1, 1) ELSE Zero

CompletionScore(correctBlanks, totalBlanks) ==
  IF totalBlanks > 0 THEN Quotient(correctBlanks, totalBlanks) ELSE Zero

IsFullyCorrect(correctBlanks, totalBlanks) == correctBlanks = totalBlanks

Feedback(correctBlanks, totalBlanks) ==
  LET score == CompletionScore(correctBlanks, totalBlanks)
  IN IF IsFullyCorrect(correctBlanks, totalBlanks) THEN AllCorrectFeedback
     ELSE IF AtLeast(score, 7, 10) THEN GoodWorkFeedback(correctBlanks, totalBlanks)
     ELSE IF AtLeast(score, 4, 10) THEN PartialCreditFeedback(correctBlanks, totalBlanks)
     ELSE MorePracticeFeedback(correctBlanks, totalBlanks)

Detail(blankId, isCorrect) ==
  "blank-" \o blankId \o (IF isCorrect THEN "-correct" ELSE "-incorrect")

Thrown == [kind |-> "throw", error |-> "TypeError"]

NotRegistered == [kind |-> "throw", error |-> "not registered"]

NoAnswersResult(q, resp) ==
  [kind |-> "value",
   questionIndex |-> Get(resp, "questionIndex"),
   questionType |-> "completion",
   isCorrect |-> FALSE,
   score |-> Zero,
   maxScore |-> 1,
   feedback |-> NoAnswersFeedback,
   partialCredit |->
     [earned |-> 0,
      possible |-> Len(q.blanks),
      details |-> [i \in 1..Len(q.blanks) |->
                     Detail(BlankIdOf(q.blanks[i], i - 1).id, FALSE)]]]

\* The locals of blanks.forEach, one record per blank.
CheckBlanks(q, answers) ==
  [i \in 1..Len(q.blanks) |-> CheckBlank(answers, q.blanks[i], i - 1)]

GradedResult(q, resp, checks) ==
  LET totalBlanks == Len(q.blanks)
      correctBlanks == Cardinality({i \in 1..totalBlanks : checks[i].isCorrect})
  IN [kind |-> "value",
      questionIndex |-> Get(resp, "questionIndex"),
      questionType |-> "completion",
      isCorrect |-> IsFullyCorrect(correctBlanks, totalBlanks),
      score |-> CompletionScore(correctBlanks, totalBlanks),
      maxScore |-> 1,
      feedback |-> Feedback(correctBlanks, totalBlanks),
      partialCredit |->
        [earned |-> correctBlanks,
         possible |-> totalBlanks,
         details |-> [i \in 1..totalBlanks |->
                        Detail(checks[i].blankId, checks[i].isCorrect)]]]

calculateCompletionScore(q, resp) ==
  LET extracted == ExtractUserAnswers(resp)
  IN IF ~extracted.found THEN NoAnswersResult(q, resp)
     ELSE LET checks == CheckBlanks(q, extracted.v)
          IN IF \E i \in 1..Len(checks) : checks[i].throws
             THEN Thrown
             ELSE GradedResult(q, resp, checks)

(***************************************************************************)
(* Validators and the multiple-choice scorer.                              *)
(***************************************************************************)
IsAnswerEntry_BlankIdOnly(answer) ==
  /\ Truthy(answer)
  /\ IsString(Get(answer, "blankId"))

IsAnswerEntry(answer) ==
  /\ Truthy(answer)
  /\ IsString(Get(answer, "blankId"))
  /\ IsString(Get(answer, "value"))

validateCompletionResponse(resp) ==
  /\ Truthy(resp)
  /\ IsObject(resp)
  /\ Get(resp, "questionType") \in {Id("completion"), Id("fill-blank")}
  /\ Truthy(Get(resp, "response"))
  /\ IsArray(Get(Get(resp, "response"), "answers"))
  /\ \A i \in 1..Len(Get(Get(resp, "response"), "answers").a) :
       IsAnswerEntry(Get(Get(resp, "response"), "answers").a[i])

validateMultipleChoiceResponse(resp) ==
  /\ Truthy(resp)
  /\ IsObject(resp)
  /\ Get(resp, "questionType") = Id("multiple-choice")
  /\ Truthy(Get(resp, "response"))
  /\ IsString(Get(Get(resp, "response"), "selectedOption"))
  /\ Get(Get(resp, "response"), "selectedOption") \in {Id("A"), Id("B"), Id("C"), Id("D")}

\* A template literal's text for a value: `${value}`.
TemplateText(v) == IF v = Undef THEN "undefined" ELSE v.id

calculateMultipleChoiceScore_AnySelection(q, resp) ==
  IF IsNullish(Get(resp, "response")) THEN Thrown
  ELSE LET isCorrect == Truthy(Get(Get(resp, "response"), "selectedOption"))
       IN [kind |-> "value",
           questionIndex |-> Get(resp, "questionIndex"),
           questionType |-> "multiple-choice",
           isCorrect |-> isCorrect,
           score |-> IF isCorrect THEN Quotient(1, 1) ELSE Zero,
           maxScore |-> 1,
           correctAnswer |-> q.correctAnswer,
           feedback |-> IF isCorrect THEN "Correct! Well done."
                        ELSE "Incorrect. The correct answer is "
                               \o TemplateText(q.correctAnswer) \o "."]

\* q.correctAnswer is question.content.correctAnswer.  Reading
\* response.response.selectedOption raises when response.response is null or
\* undefined.
calculateMultipleChoiceScore(q, resp) ==
  IF IsNullish(Get(resp, "response")) THEN Thrown
  ELSE LET isCorrect == q.correctAnswer = Get(Get(resp, "response"), "selectedOption")
       IN [kind |-> "value",
           questionIndex |-> Get(resp, "questionIndex"),
           questionType |-> "multiple-choice",
           isCorrect |-> isCorrect,
           score |-> IF isCorrect THEN Quotient(1, 1) ELSE Zero,
           maxScore |-> 1,
           correctAnswer |-> q.correctAnswer,
           feedback |-> IF isCorrect THEN "Correct! Well done."
                        ELSE "Incorrect. The correct answer is "
                               \o TemplateText(q.correctAnswer) \o "."]

(***************************************************************************)
(* QuestionTypeRegistry.  completion and fill-blank are registered with    *)
(* the same config object.                                                 *)
(***************************************************************************)
multipleChoiceConfig ==
  [component |-> "MultipleChoiceQuestion", previewComponent |-> "MultipleChoicePreview",
   responseValidator |-> "validateMultipleChoiceResponse",
   scoreCalculator |-> "calculateMultipleChoiceScore",
   promptTemplate |-> Undef,
   isEnabled |-> TRUE, isProduction |-> TRUE]

completionConfig ==
  [component |-> "CompletionQuestion", previewComponent |-> "CompletionPreview",
   responseValidator |-> "validateCompletionResponse",
   scoreCalculator |-> "calculateCompletionScore",
   promptTemplate |-> Id("completionQuestionsPrompt"),
   isEnabled |-> TRUE, isProduction |-> FALSE]

\* The registry once the registration modules have been imported.
RegistryLoaded ==
  /\ types = [tag \in {"multiple-choice", "completion", "fill-blank"} |->
                IF tag = "multiple-choice" THEN "multipleChoiceConfig"
                ELSE "completionConfig"]
  /\ configs = [name \in {"multipleChoiceConfig", "completionConfig"} |->
                  IF name = "multipleChoiceConfig" THEN multipleChoiceConfig
                  ELSE completionConfig]
  /\ formatters = [tag \in {"completion", "fill-blank"} |-> "completionFormatter"]

RunValidator(name, resp) ==
  IF name = "validateCompletionResponse" THEN validateCompletionResponse(resp)
  ELSE validateMultipleChoiceResponse(resp)

RunScorer(name, q, resp) ==
  IF name = "calculateCompletionScore" THEN calculateCompletionScore(q, resp)
  ELSE calculateMultipleChoiceScore(q, resp)

validateResponse(type, resp) ==
  IF type \notin DOMAIN types THEN FALSE
  ELSE RunValidator(configs[types[type]].responseValidator, resp)

calculateScore(q, resp) ==
  IF q.type \notin DOMAIN types THEN NotRegistered
  ELSE RunScorer(configs[types[q.type]].scoreCalculator, q, resp)

\* types.set(type, config): the map with type bound to the config object.
register_FirstWins(type, config) ==
  [t \in DOMAIN types \cup {type} |-> IF t \in DOMAIN types THEN types[t] ELSE config]

register(type, config) ==
  [t \in DOMAIN types \cup {type} |-> IF t = type THEN config ELSE types[t]]

\* A returned config is the registered object: ref names it, config is its
\* contents at the time of the call.
getConfig(type) ==
  IF type \notin DOMAIN types THEN NotRegistered
  ELSE [kind |-> "value", ref |-> types[type], config |-> configs[types[type]]]

getComponent(type) ==
  IF type \notin DOMAIN types THEN NotRegistered
  ELSE [kind |-> "value", component |-> configs[types[type]].component]

getPreviewComponent(type) ==
  IF type \notin DOMAIN types THEN NotRegistered
  ELSE [kind |-> "value", component |-> configs[types[type]].previewComponent]

\* The keys of a Map are distinct: the arrays of tags are kept as sets.
getAllTypes == DOMAIN types

getEnabledTypes == {type \in DOMAIN types : configs[types[type]].isEnabled}

getProductionTypes_IgnoringEnabled ==
  {type \in DOMAIN types : configs[types[type]].isProduction}

getProductionTypes ==
  {type \in DOMAIN types :
     configs[types[type]].isEnabled /\ configs[types[type]].isProduction}

isRegistered(type) == type \in DOMAIN types

isEnabled_DefaultOn(type) ==
  IF type \in DOMAIN types THEN configs[types[type]].isEnabled ELSE TRUE

isEnabled(type) ==
  IF type \in DOMAIN types THEN configs[types[type]].isEnabled ELSE FALSE

\* config.isEnabled = enabled on the object registered for type: every tag
\* registered with that object sees the new value.
setEnabled(type, enabled) ==
  IF type \in DOMAIN types
  THEN [configs EXCEPT ![types[type]].isEnabled = enabled]
  ELSE configs

setProductionReady(type, isProduction) ==
  IF type \in DOMAIN types
  THEN [configs EXCEPT ![types[type]].isProduction = isProduction]
  ELSE configs

getStatus ==
  [totalTypes |-> Cardinality(getAllTypes),
   enabledTypes |-> Cardinality(getEnabledTypes),
   productionTypes |-> Cardinality(getProductionTypes),
   developmentTypes |-> Cardinality(getEnabledTypes) - Cardinality(getProductionTypes)]

(***************************************************************************)
(* QuestionFactory.tsx.  A factory returns a React element: the name of    *)
(* the component it is an element of.                                      *)
(***************************************************************************)
Element(component) == [kind |-> "value", element |-> component]

QuestionFactory_RenderDisabled(q) ==
  IF ~isRegistered(q.type) THEN Element("UnsupportedQuestionType")
  ELSE IF getComponent(q.type).kind = "throw" THEN Element("QuestionFactoryError")
  ELSE Element(getComponent(q.type).component)

QuestionFactory(q) ==
  IF ~isRegistered(q.type) THEN Element("UnsupportedQuestionType")
  ELSE IF ~isEnabled(q.type) THEN Element("DisabledQuestionType")
  ELSE IF getComponent(q.type).kind = "throw" THEN Element("QuestionFactoryError")
  ELSE Element(getComponent(q.type).component)

QuestionPreviewFactory(q) ==
  IF ~isRegistered(q.type) THEN Element("UnsupportedQuestionType")
  ELSE IF getPreviewComponent(q.type).kind = "throw" THEN Element("QuestionFactoryError")
  ELSE Element(getPreviewComponent(q.type).component)

canRenderQuestion(q) == isRegistered(q.type) /\ isEnabled(q.type)

(***************************************************************************)
(* One call of the scorer on the question and response drawn by Init.      *)
(* userAnswers and graded expose the locals of the call: the answer list   *)
(* the scorer settled on and what it did for each blank.                   *)
(***************************************************************************)
NoList == [t |-> "none"]

NotYet == [kind |-> "pending"]

NoQuiz == [path |-> "none"]

Idle == [phase |-> "idle"]

Score ==
  /\ pc = "ready"
  /\ LET extracted == ExtractUserAnswers(response)
         evaluation == calculateCompletionScore(question, response)
     IN /\ userAnswers' = IF extracted.found THEN extracted.v ELSE NoList
        /\ graded' = IF extracted.found /\ evaluation.kind = "value"
                     THEN CheckBlanks(question, extracted.v)
                     ELSE <<>>
        /\ result' = evaluation
  /\ pc' = "done"
  /\ UNCHANGED <<types, configs, question, response, quiz, run, formatters, display>>

(***************************************************************************)
(* Inputs.  A blank is the object of question.content.blanks; a response   *)
(* is the object handed to the scorer.                                     *)
(***************************************************************************)
SeqsUpTo(S, n) == UNION {[1..k -> S] : k \in 0..n}

Answer(id, text) == Obj(<<Field("blankId", Id(id)), Field("value", Str(text))>>)

Blank(id, caseSensitive, accepted) ==
  [id |-> id, caseSensitive |-> caseSensitive,
   acceptedAnswers |-> Arr(accepted), answer |-> Undef, alternatives |-> Undef]

PrimaryBlank(id, caseSensitive, answer, alternatives) ==
  [id |-> id, caseSensitive |-> caseSensitive,
   acceptedAnswers |-> Undef, answer |-> answer, alternatives |-> alternatives]

Question(blanks) == [type |-> "completion", blanks |-> blanks]

BaseFields == <<Field("questionIndex", Num(3)), Field("questionType", Id("completion"))>>

CanonicalResponse(answers) ==
  Obj(BaseFields \o <<Field("response", Obj(<<Field("answers", Arr(answers))>>))>>)

\* The values each field of a response is drawn from, over the answer
\* lists L.
FieldChoices(k, L) ==
  CASE k = "response" ->
         {Obj(<<>>)} \cup {Obj(<<Field("answers", Arr(l))>>) : l \in L}
           \cup {Arr(l) : l \in L}
    [] k = "answers" -> {Arr(l) : l \in L}
    [] k = "answer" ->
         {Str(<<"A">>), JsonText(Obj(<<Field("foo", Num(1))>>)), JsonText(Num(5)),
          JsonText(Null)}
           \cup {JsonText(Obj(<<Field("answers", Arr(l))>>)) : l \in L}
           \cup {JsonText(Arr(l)) : l \in L}
    [] k = "data" -> {Arr(l) : l \in L} \cup {Obj(<<Field("answers", Arr(l))>>) : l \in L}
    [] k = "payload" -> {Arr(l) : l \in L}

\* The field lists that give every field of keys a value, in the order of
\* keys.
RECURSIVE FieldLists(_, _)
FieldLists(keys, L) ==
  IF keys = <<>> THEN {<<>>}
  ELSE {<<Field(Head(keys), v)>> \o rest :
          v \in FieldChoices(Head(keys), L), rest \in FieldLists(Tail(keys), L)}

\* The keys of keys that are in S, in the order of keys.
RECURSIVE Picked(_, _)
Picked(keys, S) ==
  IF keys = <<>> THEN <<>>
  ELSE (IF Head(keys) \in S THEN <<Head(keys)>> ELSE <<>>) \o Picked(Tail(keys), S)

ResponseKeys == <<"response", "answers", "answer", "data", "payload">>

ShapeEntries == {Answer("blank-1", <<"a">>), Answer("x", <<"b">>)}

ShapeLists == SeqsUpTo(ShapeEntries, MaxAnswers)

\* The sets of at most n fields that a response gives a value.
KeySets(n) ==
  {S \in SUBSET {ResponseKeys[i] : i \in 1..Len(ResponseKeys)} : Cardinality(S) <= n}

\* The responses that carry exactly the fields of S.
ShapeResponses(S) ==
  {Obj(BaseFields \o fields) : fields \in FieldLists(Picked(ResponseKeys, S), ShapeLists)}

\* Answer entries that are not {blankId: string, value: string} objects.
MalformedEntries ==
  {Null, Num(7), Str(<<"a">>),
   Obj(<<Field("blankId", Id("blank-1")), Field("value", Num(7))>>),
   Obj(<<Field("value", Str(<<"a">>))>>),
   Obj(<<Field("blankId", Id("blank-1"))>>)}

MalformedResponses ==
  {CanonicalResponse(l) : l \in SeqsUpTo(ShapeEntries \cup MalformedEntries, MaxAnswers)}

ShapeBlanks ==
  {Blank(Id("blank-1"), FALSE, <<Str(<<"a">>)>>),
   Blank(Undef, FALSE, <<Str(<<"b">>)>>),
   PrimaryBlank(Id("x"), TRUE, Str(<<"a">>), Arr(<<Str(<<"b">>)>>))}

ShapeQuestions == {Question(blanks) : blanks \in SeqsUpTo(ShapeBlanks, MaxBlanks)}

Ready ==
  /\ RegistryLoaded
  /\ quiz = NoQuiz
  /\ run = Idle
  /\ userAnswers = NoList
  /\ graded = <<>>
  /\ result = NotYet
  /\ display = NotYet
  /\ pc = "ready"

\* Responses that carry at most one shape.
SingleShapeResponses == UNION {ShapeResponses(S) : S \in KeySets(1)}

\* A question whose two blanks tell the entries of ShapeEntries apart.
ProbeQuestion ==
  Question(<<Blank(Id("blank-1"), FALSE, <<Str(<<"a">>)>>),
             Blank(Undef, FALSE, <<Str(<<"b">>)>>)>>)

\* Every question against the responses of one shape and the malformed
\* ones; every combination of shapes against the probe question.
Init ==
  /\ \/ /\ question \in ShapeQuestions
        /\ response \in SingleShapeResponses \cup MalformedResponses
     \/ /\ question = ProbeQuestion
        /\ \E S \in KeySets(MaxShapes) : response \in ShapeResponses(S)
  /\ Ready

Next == Score

Spec == Init /\ [][Next]_vars

\* Questions of NoAnswersBlanks blanks, answered by responses that carry at
\* most one shape.
NoAnswersBlanks == 3

InitNoAnswers ==
  /\ question \in {Question(blanks) : blanks \in [1..NoAnswersBlanks -> ShapeBlanks]}
  /\ response \in SingleShapeResponses
  /\ Ready

SpecNoAnswers == InitNoAnswers /\ [][Next]_vars

\* Blanks with and without identifiers, answered in the canonical shape by
\* entries whose blankId may or may not name a blank.
MatchingBlankIds == {Undef, Id("blank-1"), Id("blank-2"), Id("x")}

MatchingEntries ==
  {Answer(id, text) : id \in {"blank-0", "blank-1", "blank-2", "x", "y"},
                      text \in {<<"a">>, <<" ", "b">>}}

InitMatching ==
  /\ question \in
       {Question(blanks) :
          blanks \in SeqsUpTo({Blank(id, FALSE, <<Str(<<"a">>)>>) : id \in MatchingBlankIds},
                              MaxBlanks)}
  /\ response \in {CanonicalResponse(l) : l \in SeqsUpTo(MatchingEntries, MaxAnswers)}
  /\ Ready

SpecMatching == InitMatching /\ [][Next]_vars

\* One blank and one answer to it: texts over a letter in both cases and the
\* blank, with the spellings of the documented example.
Paris == <<"P", "a", "r", "i", "s">>

Texts ==
  SeqsUpTo({"a", "A", " "}, MaxTextLen)
    \cup {Paris, <<"p", "a", "r", "i", "s">>, <<" ", "P", "A", "R", "I", "S", " ">>}

\* The texts that acceptance lists of more than one entry are made of.
ListTexts == {<<>>, <<"a">>, <<"A">>, <<" ", "a">>, Paris}

AcceptedLists ==
  {<<text>> : text \in Texts} \cup (SeqsUpTo(ListTexts, MaxAccepted) \ {<<>>})

InitText ==
  /\ \E caseSensitive \in BOOLEAN :
       \E accepted \in AcceptedLists :
         question = Question(<<Blank(Id("blank-1"), caseSensitive,
                                     [i \in 1..Len(accepted) |-> Str(accepted[i])])>>)
  /\ response \in {CanonicalResponse(<<Answer("blank-1", text)>>) : text \in Texts}
  /\ Ready

SpecText == InitText /\ [][Next]_vars

\* The same acceptance list declared twice: blank 1 as a primary answer with
\* alternatives, blank 2 as acceptedAnswers; both are given the same value.
Quit == <<"q", "u", "i", "t">>
Resign == <<"r", "e", "s", "i", "g", "n">>
Leave == <<"l", "e", "a", "v", "e">>

AliasTexts == {<<>>, Quit, Resign, Leave, <<"Q", "U", "I", "T">>}

InitAlias ==
  /\ \E caseSensitive \in BOOLEAN, primary \in AliasTexts :
       \E alternatives \in SeqsUpTo(AliasTexts, MaxAlternatives) :
         \E declared \in BOOLEAN :
           LET alts == [i \in 1..Len(alternatives) |-> Str(alternatives[i])]
           IN question =
                Question(<<PrimaryBlank(Id("blank-0"), caseSensitive, Str(primary),
                                        IF declared \/ alts # <<>> THEN Arr(alts) ELSE Undef),
                           Blank(Id("blank-1"), caseSensitive, <<Str(primary)>> \o alts)>>)
  /\ response \in
       {CanonicalResponse(<<Answer("blank-0", text), Answer("blank-1", text)>>) :
          text \in AliasTexts \cup {<<" ", "r", "e", "s", "i", "g", "n">>}}
  /\ Ready

SpecAlias == InitAlias /\ [][Next]_vars

\* Questions of up to MaxFeedbackBlanks blanks, every blank answered right
\* ("a") or wrong ("b"), so that every score k/N is produced.
InitFeedback ==
  /\ \E n \in 0..MaxFeedbackBlanks :
       /\ question = Question([i \in 1..n |-> Blank(Undef, FALSE, <<Str(<<"a">>)>>)])
       /\ \E values \in [1..n -> {<<"a">>, <<"b">>}] :
            response = CanonicalResponse([i \in 1..n |-> Answer(IndexId(i - 1), values[i])])
  /\ Ready

SpecFeedback == InitFeedback /\ [][Next]_vars

(***************************************************************************)
(* ResultDisplayRegistry and completionFormatter, the one formatter the    *)
(* registration modules register.                                          *)
(***************************************************************************)
\* Array.prototype.sort with (a, b) => a.position - b.position: stable, and
\* a comparison with a missing position is NaN, which sort reads as 0.
RECURSIVE sortByPosition(_)
sortByPosition(blanks) ==
  IF blanks = <<>> THEN <<>>
  ELSE LET sorted == sortByPosition(SubSeq(blanks, 1, Len(blanks) - 1))
           last == blanks[Len(blanks)]
           k == IF "position" \in DOMAIN last
                THEN Cardinality({i \in 1..Len(sorted) :
                                    sorted[i].position <= last.position})
                ELSE Len(sorted)
       IN SubSeq(sorted, 1, k) \o <<last>> \o SubSeq(sorted, k + 1, Len(sorted))

\* answers.find of formatUserAnswer: the callback reads a.blankId, which
\* raises on a null entry.
FormatterFinds(items, blank, index) ==
  LET stops == {i \in 1..Len(items) :
                  \/ IsNullish(items[i])
                  \/ Get(items[i], "blankId") = blank.id
                  \/ Get(items[i], "blankId") = Id(IndexId(index))}
  IN IF stops = {} THEN [throws |-> FALSE, v |-> Undef]
     ELSE LET first == CHOOSE i \in stops : \A j \in stops : i <= j
          IN IF IsNullish(items[first]) THEN [throws |-> TRUE]
             ELSE [throws |-> FALSE, v |-> items[first]]

EmptyText == <<"(", "e", "m", "p", "t", "y", ")">>

\* The string `Blank 1: "v1" • Blank 2: "v2" ...` is the list of its values.
formatUserAnswer(q, resp) ==
  LET answers == Get(Get(resp, "response"), "answers")
      blanks == sortByPosition(q.blanks)
      found(i) == FormatterFinds(answers.a, blanks[i], i - 1)
      raises(i) == found(i).throws \/ UserValue(found(i).v).throws
      value(i) == UserValue(found(i).v).v
  IN IF ~Truthy(answers) THEN [kind |-> "value", text |-> Id("No answer provided")]
     ELSE IF ~IsArray(answers)
       THEN IF blanks = <<>> THEN [kind |-> "value", text |-> [t |-> "str", blanks |-> <<>>]]
            ELSE Thrown
     ELSE IF \E i \in 1..Len(blanks) : raises(i) THEN Thrown
     ELSE [kind |-> "value",
           text |-> [t |-> "str",
                     blanks |-> [i \in 1..Len(blanks) |->
                                   IF value(i) = <<>> THEN EmptyText ELSE value(i)]]]

\* Per blank: the primary answer, the alternatives when there are at most
\* two, their number otherwise.
formatCorrectAnswer(q) ==
  LET blanks == sortByPosition(q.blanks)
      segment(blank) ==
        LET acceptedAnswers == AcceptedAnswers(blank)
            alternatives == IF acceptedAnswers = <<>> THEN <<>> ELSE Tail(acceptedAnswers)
        IN [primaryAnswer |-> IF acceptedAnswers # <<>> /\ Truthy(acceptedAnswers[1])
                              THEN acceptedAnswers[1] ELSE Id("???"),
            alternatives |-> IF Len(alternatives) <= 2 THEN alternatives ELSE <<>>,
            more |-> IF Len(alternatives) > 2 THEN Len(alternatives) ELSE 0]
  IN [t |-> "str", blanks |-> [i \in 1..Len(blanks) |-> segment(blanks[i])]]

\* question.explanation, which the questions of the model may not carry.
Explanation(q) == IF "explanation" \in DOMAIN q THEN q.explanation ELSE Undef

\* The explanation, and the counts of the `Score: c/t blanks correct.` line
\* when it is appended.  A detail includes '-correct' when it is the correct
\* tag of one of the blank identifiers.
formatExplanation(q, evaluation) ==
  LET details == IF "partialCredit" \in DOMAIN evaluation
                 THEN evaluation.partialCredit.details ELSE <<>>
      correctCount ==
        Cardinality({i \in 1..Len(details) :
                       \E j \in 1..Len(q.blanks), k \in 0..(Len(q.blanks) - 1) :
                         details[i] = Detail(BlankIdOf(q.blanks[j], k).id, TRUE)})
      totalCount == IF details # <<>> /\ evaluation.partialCredit.possible # 0
                    THEN evaluation.partialCredit.possible ELSE Len(q.blanks)
  IN [explanation |-> IF Truthy(Explanation(q)) THEN Explanation(q)
                      ELSE Id(evaluation.feedback),
      score |-> IF details # <<>> /\ correctCount < totalCount
                THEN <<correctCount, totalCount>> ELSE <<>>]

formatResult(q, resp, evaluation) ==
  IF q.type \in DOMAIN formatters
  THEN LET userAnswer == formatUserAnswer(q, resp)
       IN IF userAnswer.kind = "throw" THEN Thrown
          ELSE [kind |-> "value",
                userAnswer |-> userAnswer.text,
                correctAnswer |-> formatCorrectAnswer(q),
                explanation |-> formatExplanation(q, evaluation),
                isCorrect |-> evaluation.isCorrect,
                score |-> evaluation.score,
                details |-> IF "partialCredit" \in DOMAIN evaluation
                            THEN evaluation.partialCredit ELSE Undef]
  ELSE [kind |-> "value",
        userAnswer |-> JsonText(IF Truthy(Get(resp, "response"))
                                THEN Get(resp, "response") ELSE resp),
        correctAnswer |-> IF "correctAnswer" \in DOMAIN evaluation
                             /\ Truthy(evaluation.correctAnswer)
                          THEN evaluation.correctAnswer ELSE Id("See explanation"),
        explanation |-> IF evaluation.feedback # "" THEN Id(evaluation.feedback)
                        ELSE IF Truthy(Explanation(q)) THEN Explanation(q)
                        ELSE Id("No explanation available"),
        isCorrect |-> evaluation.isCorrect,
        score |-> evaluation.score]

\* completionFormatter has no formatUserAnswerStructured and no
\* formatCorrectAnswerStructured, so the structured branch is never taken.
formatResultStructured(q, resp, evaluation) == formatResult(q, resp, evaluation)

(***************************************************************************)
(* Results computation: calculateResults of the results page and the GET   *)
(* handler of the results route.  Both hand every stored response that has *)
(* a question to QuestionTypeRegistry.calculateScore inside a try block.   *)
(***************************************************************************)
IndexOf(resp) == Get(resp, "questionIndex").n

ScorerCall(q, resp) == [type |-> q.type, response |-> resp]

\* The scorer functions reached by calculateScore(q, resp): none when the
\* tag is not registered.
CallsOf(q, resp) ==
  IF q.type \in DOMAIN types THEN <<ScorerCall(q, resp)>> ELSE <<>>

Counted(evaluation) ==
  IF evaluation.isCorrect \/ evaluation.score.n > 0 THEN 1 ELSE 0

\* The catch block of calculateResults compares the flat fields
\* question.correctAnswer and response.answer; a tagged question has no
\* correctAnswer of its own.
FallbackIsCorrect(q, resp) == Undef = Get(resp, "answer")

PageEntry(kind, resp, isCorrect, points) ==
  [kind |-> kind, questionIndex |-> IndexOf(resp), isCorrect |-> isCorrect,
   points |-> points]

\* The callback of currentSetResponses.map for one response; q is NoQuestion
\* when the set has no question at the response's index.
NoQuestion == [type |-> "none"]

PageTry_FallbackOnceRaised(q, resp, evaluation, caught) ==
  IF evaluation.kind = "throw" \/ q.type = "multiple-choice"
  THEN [entry |-> PageEntry("fallback", resp, caught, IF caught THEN Quotient(1, 1) ELSE Zero),
        correct |-> IF caught THEN 1 ELSE 0,
        calls |-> CallsOf(q, resp)]
  ELSE [entry |-> PageEntry("scored", resp, evaluation.isCorrect, evaluation.score),
        correct |-> Counted(evaluation),
        calls |-> CallsOf(q, resp)]

\* The try block and its catch, given what calculateScore returned or raised.
PageTry(q, resp, evaluation, caught) ==
  IF evaluation.kind = "throw"
  THEN [entry |-> PageEntry("fallback", resp, caught, IF caught THEN Quotient(1, 1) ELSE Zero),
        correct |-> IF caught THEN 1 ELSE 0,
        calls |-> CallsOf(q, resp)]
  ELSE IF formatResult(q, resp, evaluation).kind = "throw"
  THEN [entry |-> PageEntry("fallback", resp, caught, IF caught THEN Quotient(1, 1) ELSE Zero),
        correct |-> Counted(evaluation) + (IF caught THEN 1 ELSE 0),
        calls |-> CallsOf(q, resp)]
  ELSE [entry |-> PageEntry("scored", resp, evaluation.isCorrect, evaluation.score),
        correct |-> Counted(evaluation),
        calls |-> CallsOf(q, resp)]

PageOutcome(q, resp) ==
  IF q = NoQuestion
  THEN [entry |-> PageEntry("unknown", resp, FALSE, Zero), correct |-> 0, calls |-> <<>>]
  ELSE PageTry(q, resp, calculateScore(q, resp), FallbackIsCorrect(q, resp))

RECURSIVE SumCorrect(_)
SumCorrect(outcomes) ==
  IF outcomes = <<>> THEN 0 ELSE Head(outcomes).correct + SumCorrect(Tail(outcomes))

RECURSIVE AllCalls(_)
AllCalls(outcomes) ==
  IF outcomes = <<>> THEN <<>> ELSE Head(outcomes).calls \o AllCalls(Tail(outcomes))

\* The totals and the result list after one set's responses are evaluated.
PageAccumulate(state, setQuestions, outcomes) ==
  [state EXCEPT
     !.i = @ + 1,
     !.totalQuestions = @ + setQuestions,
     !.totalCorrect = @ + SumCorrect(outcomes),
     !.allResults = @ \o [k \in 1..Len(outcomes) |-> outcomes[k].entry],
     !.scorerCalls = @ \o AllCalls(outcomes),
     !.resultStartIndex = @ + setQuestions]

\* The responses whose questionIndex lies in the set's index range.
SetResponses(responses, resultStartIndex, setQuestions) ==
  SelectSeq(responses,
            LAMBDA r : /\ IndexOf(r) >= resultStartIndex
                       /\ IndexOf(r) <= resultStartIndex + setQuestions - 1)

SetOutcomes(questions, resultStartIndex, current) ==
  [k \in 1..Len(current) |->
     PageOutcome(questions[IndexOf(current[k]) - resultStartIndex + 1], current[k])]

\* One iteration of the loop over formattedGroups.
PageEvaluateSet ==
  /\ run.phase = "page"
  /\ run.i <= Len(quiz.groups)
  /\ run' = PageAccumulate(
              run, Len(quiz.groups[run.i]),
              SetOutcomes(quiz.groups[run.i], run.resultStartIndex,
                          SetResponses(quiz.responses, run.resultStartIndex,
                                       Len(quiz.groups[run.i]))))
  /\ UNCHANGED <<types, configs, question, response, userAnswers, graded, result, quiz, pc, formatters, display>>

\* Math.round((totalCorrect / totalQuestions) * 100)
RoundedPercent(totalCorrect, totalQuestions) ==
  (200 * totalCorrect + totalQuestions) \div (2 * totalQuestions)

PageFinish ==
  /\ run.phase = "page"
  /\ run.i > Len(quiz.groups)
  /\ run' = [run EXCEPT !.phase = "done"]
  /\ result' = [kind |-> "results",
                 score |-> RoundedPercent(run.totalCorrect, run.totalQuestions),
                 totalQuestions |-> run.totalQuestions,
                 correctAnswers |-> run.totalCorrect,
                 results |-> run.allResults]
  /\ pc' = "done"
  /\ UNCHANGED <<types, configs, question, response, userAnswers, graded, quiz, formatters, display>>

\* result_data.allResults as stored: one raw result per question, in order.
RECURSIVE Flatten(_)
Flatten(groups) ==
  IF groups = <<>> THEN <<>> ELSE Head(groups) \o Flatten(Tail(groups))

RawResults(groups) ==
  [k \in 1..Len(Flatten(groups)) |->
     [question |-> Flatten(groups)[k], questionIndex |-> k - 1]]

RawEntry(rawResult) == [kind |-> "raw", questionIndex |-> rawResult.questionIndex]

\* The try block of the map callback and its catch, given what calculateScore
\* returned or raised.
RouteTry(rawResult, matchingResponse, evaluation) ==
  IF evaluation.kind = "throw"
     \/ formatResult(rawResult.question, matchingResponse, evaluation).kind = "throw"
  THEN RawEntry(rawResult)
  ELSE PageEntry("scored", matchingResponse, evaluation.isCorrect, evaluation.score)

\* responses.find: the first stored response with the raw result's index.
FirstMatch(responses, questionIndex) ==
  LET matches == {k \in 1..Len(responses) : IndexOf(responses[k]) = questionIndex}
  IN IF matches = {} THEN Undef
     ELSE responses[CHOOSE k \in matches : \A j \in matches : k <= j]

RouteStep(state, rawResult, matchingResponse) ==
  IF matchingResponse = Undef
  THEN [state EXCEPT !.i = @ + 1, !.allResults = Append(@, RawEntry(rawResult))]
  ELSE [state EXCEPT
          !.i = @ + 1,
          !.scorerCalls = @ \o CallsOf(rawResult.question, matchingResponse),
          !.allResults =
            Append(@, RouteTry(rawResult, matchingResponse,
                               calculateScore(rawResult.question, matchingResponse)))]

\* The callback of rawResults.map for the raw result at run.i.
RouteFormatResult ==
  /\ run.phase = "route"
  /\ run.i <= Len(RawResults(quiz.groups))
  /\ run' = RouteStep(run, RawResults(quiz.groups)[run.i],
                       FirstMatch(quiz.responses, RawResults(quiz.groups)[run.i].questionIndex))
  /\ UNCHANGED <<types, configs, question, response, userAnswers, graded, result, quiz, pc, formatters, display>>

RouteRespond ==
  /\ run.phase = "route"
  /\ run.i > Len(RawResults(quiz.groups))
  /\ run' = [run EXCEPT !.phase = "done"]
  /\ result' = [kind |-> "results", results |-> run.allResults]
  /\ pc' = "done"
  /\ UNCHANGED <<types, configs, question, response, userAnswers, graded, quiz, formatters, display>>

\* Stored quizzes: sets of one question each, and stored responses that do
\* or do not have the shape of their tag.
CompletionQ == Question(<<Blank(Id("blank-1"), FALSE, <<Str(<<"a">>)>>)>>)

MultipleChoiceQ == [type |-> "multiple-choice", correctAnswer |-> Id("B")]

MatchingQ == [type |-> "matching"]

Tagged(index, tag, inner) ==
  Obj(<<Field("questionIndex", Num(index)), Field("questionType", Id(tag)),
        Field("response", inner)>>)

StoredResponses(index) ==
  {Tagged(index, "completion", Obj(<<Field("answers", Arr(<<Answer("blank-1", <<"a">>)>>))>>)),
   Tagged(index, "completion",
          Obj(<<Field("answers",
                      Arr(<<Obj(<<Field("blankId", Id("blank-1")),
                                  Field("value", Num(7))>>)>>))>>)),
   Tagged(index, "multiple-choice", Obj(<<Field("selectedOption", Id("B"))>>)),
   Obj(<<Field("questionIndex", Num(index)), Field("answer", Str(<<"A">>))>>)}

InitResults ==
  /\ RegistryLoaded
  /\ quiz \in [path : {"page", "route"},
                groups : SeqsUpTo({<<CompletionQ>>, <<MultipleChoiceQ>>, <<MatchingQ>>},
                                  MaxSets) \ {<<>>},
                responses : SeqsUpTo(UNION {StoredResponses(index) : index \in 0..MaxSets},
                                     MaxResponses)]
  /\ run = [phase |-> quiz.path, i |-> 1, resultStartIndex |-> 0, totalQuestions |-> 0,
            totalCorrect |-> 0, allResults |-> <<>>, scorerCalls |-> <<>>]
  /\ question = NoQuestion
  /\ response = Undef
  /\ userAnswers = NoList
  /\ graded = <<>>
  /\ result = NotYet
  /\ display = NotYet
  /\ pc = "ready"

NextResults ==
  \/ PageEvaluateSet
  \/ PageFinish
  \/ RouteFormatResult
  \/ RouteRespond

SpecResults == InitResults /\ [][NextResults]_vars

(***************************************************************************)
(* Evaluation and display of one question: QuestionTypeRegistry            *)
(* .calculateScore, then ResultDisplayRegistry.formatResult or             *)
(* formatResultStructured on what it returned.                             *)
(***************************************************************************)
Evaluate ==
  /\ pc = "ready"
  /\ result' = calculateScore(question, response)
  /\ pc' = "scored"
  /\ UNCHANGED <<types, configs, question, response, userAnswers, graded, quiz, run,
                 formatters, display>>

\* completionFormatter sorts question.content.blanks in place: in
\* formatUserAnswer when the response has answers, in formatCorrectAnswer
\* otherwise.
Format ==
  /\ pc = "scored"
  /\ result.kind = "value"
  /\ \E structured \in BOOLEAN :
       display' = IF structured THEN formatResultStructured(question, response, result)
                  ELSE formatResult(question, response, result)
  /\ question' = IF question.type \in DOMAIN formatters
                  THEN [question EXCEPT !.blanks = sortByPosition(@)]
                  ELSE question
  /\ pc' = "done"
  /\ UNCHANGED <<types, configs, response, userAnswers, graded, result, quiz, run,
                 formatters>>

NextDisplay == Evaluate \/ Format

\* Multiple-choice questions of up to MaxOptions options, with and without a
\* correct answer, and responses that select a letter, something else or
\* nothing.
MaxOptions == 4

Letters == {"A", "B", "C", "D"}

ChoiceQuestion(correctAnswer, options, explanation) ==
  [type |-> "multiple-choice", correctAnswer |-> correctAnswer, options |-> options,
   explanation |-> explanation]

ChoiceQuestions ==
  {ChoiceQuestion(correctAnswer, options, explanation) :
     correctAnswer \in {Undef} \cup {Id(letter) : letter \in Letters},
     options \in {Undef} \cup {Arr([i \in 1..n |-> Id("option " \o ToString(i))]) :
                                  n \in 0..MaxOptions},
     explanation \in {Undef, Id("Because.")}}

ChoiceResponses ==
  {Tagged(3, "multiple-choice", inner) :
     inner \in {Undef, Null, Obj(<<>>)} \cup
               {Obj(<<Field("selectedOption", selectedOption)>>) :
                  selectedOption \in {Id(letter) : letter \in Letters \cup {"E", "b", ""}}
                                        \cup {Num(7), Null}}}

InitChoice ==
  /\ question \in ChoiceQuestions
  /\ response \in ChoiceResponses
  /\ Ready

SpecChoice == InitChoice /\ [][NextDisplay]_vars

\* Completion questions whose blanks carry a character position, in and out
\* of position order, or none.
Positioned(blanks, positions) ==
  [i \in 1..Len(blanks) |->
     [f \in DOMAIN blanks[i] \cup {"position"} |->
        IF f = "position" THEN positions[i] ELSE blanks[i][f]]]

DisplayQuestions ==
  ShapeQuestions \cup
  {Question(Positioned(blanks, positions)) :
     blanks \in [1..MaxBlanks -> ShapeBlanks], positions \in [1..MaxBlanks -> {5, 20}]}

InitDisplay ==
  /\ \/ /\ question \in DisplayQuestions
        /\ response \in MalformedResponses
     \/ /\ question \in ChoiceQuestions
        /\ response \in ChoiceResponses
  /\ Ready

SpecDisplay == InitDisplay /\ [][NextDisplay]_vars

(***************************************************************************)
(* Validation of a submitted response, QuestionTypeRegistry                *)
(* .validateResponse(question.type, response), and a resubmission of the   *)
(* response with one more field or one field less.                         *)
(***************************************************************************)
Validate ==
  /\ pc = "ready"
  /\ display' = [kind |-> "verdict", ok |-> validateResponse(question.type, response)]
  /\ pc' = "validated"
  /\ UNCHANGED <<types, configs, question, response, userAnswers, graded, result, quiz,
                 run, formatters>>

\* The responses that differ from r by one field: an extra field on the
\* response, on its response object or on one answer, or one of the fields
\* questionType, response, answers, selectedOption, blankId, value removed.
Amendments(r) ==
  LET with(o) == Obj(Append(o.e, Field("extra", Num(1))))
      without(o, k) == Obj(SelectSeq(o.e, LAMBDA f : f.k # k))
      replace(o, k, v) == Obj([i \in 1..Len(o.e) |->
                                 IF o.e[i].k = k THEN Field(k, v) ELSE o.e[i]])
      inner == Get(r, "response")
      answers == Get(inner, "answers")
      entries == IF IsArray(answers)
                 THEN {i \in 1..Len(answers.a) : answers.a[i].t = "obj"} ELSE {}
      entry(i, e) == replace(r, "response",
                             replace(inner, "answers", Arr([answers.a EXCEPT ![i] = e])))
  IN IF r.t # "obj" THEN {}
     ELSE {[kind |-> "extra", r |-> with(r)]}
          \cup {[kind |-> "removed", r |-> without(r, k)] :
                  k \in {k \in {"questionType", "response"} : HasOwn(r, k)}}
          \cup (IF inner.t # "obj" THEN {}
                ELSE {[kind |-> "extra", r |-> replace(r, "response", with(inner))]}
                     \cup {[kind |-> "removed",
                            r |-> replace(r, "response", without(inner, k))] :
                             k \in {k \in {"answers", "selectedOption"} : HasOwn(inner, k)}})
          \cup {[kind |-> "extra", r |-> entry(i, with(answers.a[i]))] : i \in entries}
          \cup {[kind |-> "removed", r |-> entry(i, without(answers.a[i], k))] :
                  i \in entries, k \in {"blankId", "value"}}

Amend ==
  /\ pc = "validated"
  /\ run = Idle
  /\ \E amendment \in Amendments(response) :
       /\ response' = amendment.r
       /\ run' = [phase |-> "amended", kind |-> amendment.kind, before |-> display.ok]
  /\ pc' = "ready"
  /\ UNCHANGED <<types, configs, question, userAnswers, graded, result, quiz,
                 formatters, display>>

NextValidate == Validate \/ Amend

\* Responses of every tag with well-formed and malformed payloads, validated
\* under registered tags and under one that is not.
ValidatedResponses ==
  ChoiceResponses \cup {Null, Num(7)} \cup
  {Tagged(3, tag, Obj(<<Field("answers", Arr(answers))>>)) :
     tag \in {"completion", "fill-blank", "multiple-choice"},
     answers \in SeqsUpTo(ShapeEntries \cup MalformedEntries, MaxAnswers)}

InitValidate ==
  /\ question \in {[type |-> tag] :
                      tag \in {"completion", "fill-blank", "multiple-choice", "matching"}}
  /\ response \in ValidatedResponses
  /\ Ready

SpecValidate == InitValidate /\ [][NextValidate]_vars

(***************************************************************************)
(* The registry under registrations, toggles and lookups in any order.     *)
(* Every call is synchronous, so each is one step.  run.last keeps, for    *)
(* each tag, the config object of the latest register call.                *)
(***************************************************************************)
Tags == {"completion", "fill-blank", "multiple-choice", "matching"}

Register ==
  /\ pc = "ready"
  /\ \E type \in Tags, config \in DOMAIN configs :
       /\ types' = register(type, config)
       /\ run' = [run EXCEPT !.last = [t \in DOMAIN run.last \cup {type} |->
                                        IF t = type THEN config ELSE run.last[t]]]
  /\ UNCHANGED <<configs, question, response, userAnswers, graded, result, quiz,
                 formatters, display, pc>>

SetEnabled ==
  /\ pc = "ready"
  /\ \E type \in Tags, enabled \in BOOLEAN : configs' = setEnabled(type, enabled)
  /\ UNCHANGED <<types, question, response, userAnswers, graded, result, quiz, run,
                 formatters, display, pc>>

SetProductionReady ==
  /\ pc = "ready"
  /\ \E type \in Tags, isProduction \in BOOLEAN :
       configs' = setProductionReady(type, isProduction)
  /\ UNCHANGED <<types, question, response, userAnswers, graded, result, quiz, run,
                 formatters, display, pc>>

\* One call of a lookup, for the tag of the question where it takes one.
Lookup ==
  /\ pc = "ready"
  /\ \E op \in {"getConfig", "getComponent", "getPreviewComponent", "validateResponse",
                 "calculateScore", "isRegistered", "isEnabled", "getAllTypes",
                 "getEnabledTypes", "getProductionTypes", "getStatus", "QuestionFactory",
                 "QuestionPreviewFactory", "canRenderQuestion"} :
       display' =
         [kind |-> "lookup", op |-> op,
          outcome |->
            CASE op = "getConfig" -> getConfig(question.type)
              [] op = "getComponent" -> getComponent(question.type)
              [] op = "getPreviewComponent" -> getPreviewComponent(question.type)
              [] op = "validateResponse" -> validateResponse(question.type, response)
              [] op = "calculateScore" -> calculateScore(question, response)
              [] op = "isRegistered" -> isRegistered(question.type)
              [] op = "isEnabled" -> isEnabled(question.type)
              [] op = "getAllTypes" -> getAllTypes
              [] op = "getEnabledTypes" -> getEnabledTypes
              [] op = "getProductionTypes" -> getProductionTypes
              [] op = "getStatus" -> getStatus
              [] op = "QuestionFactory" -> QuestionFactory(question)
              [] op = "QuestionPreviewFactory" -> QuestionPreviewFactory(question)
              [] op = "canRenderQuestion" -> canRenderQuestion(question)]
  /\ UNCHANGED <<types, configs, question, response, userAnswers, graded, result, quiz,
                 run, formatters, pc>>

NextRegistry == Register \/ SetEnabled \/ SetProductionReady \/ Lookup

\* The registry as the registration modules leave it, a question of any
\* tag and a stored response, which one validator accepts and the other
\* rejects.
InitRegistry ==
  /\ RegistryLoaded
  /\ question \in {[type |-> type, blanks |-> CompletionQ.blanks,
                     correctAnswer |-> Id("B"),
                     options |-> Arr(<<Id("one"), Id("two")>>), explanation |-> Undef] :
                      type \in Tags}
  /\ response = Tagged(0, "multiple-choice", Obj(<<Field("selectedOption", Id("B"))>>))
  /\ run = [phase |-> "registry", last |-> types]
  /\ quiz = NoQuiz
  /\ userAnswers = NoList
  /\ graded = <<>>
  /\ result = NotYet
  /\ display = NotYet
  /\ pc = "ready"

SpecRegistry == InitRegistry /\ [][NextRegistry]_vars

(***************************************************************************)
(* Migration between the legacy and the tagged formats (question-migration *)
(* and response-converter utilities).  Questions and responses are the     *)
(* untyped objects the functions receive.                                  *)
(***************************************************************************)
IsNumber(v) == v.t = "num"

\* JSON.stringify(v): undefined for undefined, else the JSON text of v.
stringify(v) == IF v = Undef THEN Undef ELSE JsonText(v)

isLegacyQuestion(q) ==
  /\ Truthy(q)
  /\ IsString(Get(q, "id"))
  /\ IsString(Get(q, "question"))
  /\ IsArray(Get(q, "options"))
  /\ IsString(Get(q, "correctAnswer"))
  /\ (~Truthy(Get(q, "type")) \/ IsString(Get(q, "type")))
  /\ ~Truthy(Get(q, "content"))

isLegacyResponse_AnyAnswer(r) ==
  /\ Truthy(r)
  /\ IsNumber(Get(r, "questionIndex"))
  /\ IsString(Get(r, "answer"))

isLegacyResponse(r) ==
  /\ Truthy(r)
  /\ IsNumber(Get(r, "questionIndex"))
  /\ IsString(Get(r, "answer"))
  /\ ~Truthy(Get(r, "questionType"))

migrateLegacyQuestion(q) ==
  Obj(<<Field("id", Get(q, "id")),
        Field("type", Id("multiple-choice")),
        Field("question", Get(q, "question")),
        Field("difficulty", Get(q, "difficulty")),
        Field("explanation",
              IF Truthy(Get(q, "explanation")) THEN Get(q, "explanation") ELSE Id("")),
        Field("context", Get(q, "context")),
        Field("content", Obj(<<Field("options", Get(q, "options")),
                               Field("correctAnswer", Get(q, "correctAnswer"))>>))>>)

\* Called with the default questionType 'multiple-choice'; now is the value
\* of new Date().
migrateLegacyResponse(r, now) ==
  Obj(<<Field("questionIndex", Get(r, "questionIndex")),
        Field("questionType", Id("multiple-choice")),
        Field("timestamp", Num(now)),
        Field("response", Obj(<<Field("selectedOption", Get(r, "answer"))>>))>>)

autoMigrateQuestion(q) == IF isLegacyQuestion(q) THEN migrateLegacyQuestion(q) ELSE q

autoMigrateResponse(r, now) ==
  IF isLegacyResponse(r) THEN migrateLegacyResponse(r, now) ELSE r

NotImplemented(questionType) ==
  [kind |-> "throw",
   error |-> "Legacy conversion not implemented for question type: "
               \o TemplateText(questionType)]

convertToLegacyResponse_AnyTag(r) ==
  IF IsNullish(r) \/ IsNullish(Get(r, "response")) THEN Thrown
  ELSE [kind |-> "value",
        v |-> Obj(<<Field("questionIndex", Get(r, "questionIndex")),
                    Field("answer", Get(Get(r, "response"), "selectedOption"))>>)]

convertToLegacyResponse(r) ==
  IF IsNullish(r) THEN Thrown
  ELSE IF Get(r, "questionType") = Id("multiple-choice")
  THEN IF IsNullish(Get(r, "response")) THEN Thrown
       ELSE [kind |-> "value",
             v |-> Obj(<<Field("questionIndex", Get(r, "questionIndex")),
                         Field("answer", Get(Get(r, "response"), "selectedOption"))>>)]
  ELSE NotImplemented(Get(r, "questionType"))

convertCompletionResponse(r) ==
  IF Truthy(Get(Get(r, "response"), "answers"))
  THEN [kind |-> "value",
        v |-> JsonText(Obj(<<Field("answers", Get(Get(r, "response"), "answers"))>>))]
  ELSE [kind |-> "value", v |-> stringify(Get(r, "response"))]

convertResponseToLegacyFormat(r) ==
  IF IsNullish(r) THEN Thrown
  ELSE IF Get(r, "questionType") = Id("multiple-choice")
  THEN IF IsNullish(Get(r, "response")) THEN Thrown
       ELSE [kind |-> "value", v |-> Get(Get(r, "response"), "selectedOption")]
  ELSE IF Get(r, "questionType") \in {Id("completion"), Id("fill-blank")}
  THEN convertCompletionResponse(r)
  ELSE [kind |-> "value", v |-> stringify(Get(r, "response"))]

(***************************************************************************)
(* Migration of one stored question and one stored response: quiz keeps    *)
(* the stored objects, question and response are what the migration        *)
(* functions were last handed and returned.                                *)
(***************************************************************************)
MaxPasses == 2

AutoMigrateQuestion ==
  /\ pc = "ready"
  /\ run.phase = "migration"
  /\ run.questionPasses < MaxPasses
  /\ question' = autoMigrateQuestion(question)
  /\ run' = [run EXCEPT !.questionPasses = @ + 1]
  /\ UNCHANGED <<types, configs, response, userAnswers, graded, result, quiz,
                 formatters, display, pc>>

AutoMigrateResponse ==
  /\ pc = "ready"
  /\ run.phase = "migration"
  /\ run.responsePasses < MaxPasses
  /\ response' = autoMigrateResponse(response, run.now)
  /\ run' = [run EXCEPT !.responsePasses = @ + 1, !.now = @ + 1]
  /\ UNCHANGED <<types, configs, question, userAnswers, graded, result, quiz,
                 formatters, display, pc>>

ConvertToLegacy ==
  /\ pc = "ready"
  /\ run.phase = "migration"
  /\ display' = convertToLegacyResponse(response)
  /\ pc' = "converted"
  /\ UNCHANGED <<types, configs, question, response, userAnswers, graded, result, quiz,
                 run, formatters>>

NextMigrate == AutoMigrateQuestion \/ AutoMigrateResponse \/ ConvertToLegacy

\* The objects that carry any of the listed fields, each with one of its
\* values, in the order of the list.
RECURSIVE FieldSeqs(_)
FieldSeqs(choices) ==
  IF choices = <<>> THEN {<<>>}
  ELSE {head \o tail : head \in {<<>>} \cup {<<Field(Head(choices).k, v)>> : v \in Head(choices).vs},
                         tail \in FieldSeqs(Tail(choices))}

StoredQuestions ==
  {Null} \cup
  {Obj(fields) :
     fields \in FieldSeqs(<<
       [k |-> "id", vs |-> {Id("q1")}],
       [k |-> "question", vs |-> {Id("Which one?")}],
       [k |-> "options", vs |-> {Arr(<<Id("one"), Id("two")>>)}],
       [k |-> "correctAnswer", vs |-> {Id("B")}],
       [k |-> "type", vs |-> {Id("multiple-choice"), Id("completion"), Num(1)}],
       [k |-> "explanation", vs |-> {Id("Because.")}],
       [k |-> "content",
        vs |-> {Null, Obj(<<Field("options", Arr(<<Id("one"), Id("two")>>)),
                            Field("correctAnswer", Id("B"))>>)}]>>)}

StoredAnswers ==
  {Null, Num(7)} \cup
  {Obj(fields) :
     fields \in FieldSeqs(<<
       [k |-> "questionIndex", vs |-> {Num(0), Id("0")}],
       [k |-> "answer",
        vs |-> {Id("B"), Num(2),
                JsonText(Obj(<<Field("answers", Arr(<<Answer("blank-1", <<"a">>)>>))>>))}],
       [k |-> "questionType", vs |-> {Id(""), Id("multiple-choice"), Id("completion")}],
       [k |-> "timestamp", vs |-> {Num(0)}],
       [k |-> "response",
        vs |-> {Obj(<<Field("selectedOption", Id("B"))>>),
                Obj(<<Field("answers", Arr(<<Answer("blank-1", <<"a">>)>>))>>)}]>>)}

InitMigrate ==
  /\ RegistryLoaded
  /\ \/ /\ question \in StoredQuestions
        /\ response = Null
     \/ /\ question = Null
        /\ response \in StoredAnswers
  /\ quiz = [path |-> "migration", question |-> question, response |-> response]
  /\ run = [phase |-> "migration", now |-> 1, questionPasses |-> 0, responsePasses |-> 0]
  /\ userAnswers = NoList
  /\ graded = <<>>
  /\ result = NotYet
  /\ display = NotYet
  /\ pc = "ready"

SpecMigrate == InitMigrate /\ [][NextMigrate]_vars

(***************************************************************************)
(* Answer selection in a rendered question.  A host (the QuestionCard      *)
(* wrapper or the group quiz view) migrates the question, hands it to      *)
(* QuestionFactory with its own callback, and the rendered component calls *)
(* that callback with the response it builds.  quiz keeps the host and the *)
(* question it was given, display the rendered element, userAnswers the    *)
(* component's own answers state, response the response last built and     *)
(* result what the callback did with it.                                   *)
(***************************************************************************)
MaxSelections == 2

\* question.type as a registry key.
TagOf(q) ==
  IF IsString(Get(q, "type")) /\ "id" \in DOMAIN Get(q, "type") THEN Get(q, "type").id
  ELSE "undefined"

IndexText(index) == <<"0", "1", "2", "3">>[index + 1]

\* blank.id || `blank-${index}` for the input fields of the completion
\* component.
InputIds(q) ==
  LET blanks == Get(Get(q, "content"), "blanks").a
  IN  [index \in 1..Len(blanks) |->
         IF Truthy(Get(blanks[index], "id")) THEN Get(blanks[index], "id")
         ELSE Id("blank-" \o IndexText(index - 1))]

\* { ...answers, [blankId]: value } as the list Object.entries gives.
WithAnswer(entries, blankId, value) ==
  IF \E i \in 1..Len(entries) : entries[i].k = blankId
  THEN [i \in 1..Len(entries) |->
          IF entries[i].k = blankId THEN Field(blankId, value) ELSE entries[i]]
  ELSE Append(entries, Field(blankId, value))

MultipleChoiceSelect(index, optionLetter, now) ==
  Obj(<<Field("questionIndex", Num(index)), Field("questionType", Id("multiple-choice")),
        Field("timestamp", Num(now)),
        Field("response", Obj(<<Field("selectedOption", Id(optionLetter))>>))>>)

CompletionUpdateAnswer(index, newAnswers, now) ==
  Obj(<<Field("questionIndex", Num(index)), Field("questionType", Id("completion")),
        Field("timestamp", Num(now)),
        Field("response",
              Obj(<<Field("answers",
                          Arr([i \in 1..Len(newAnswers) |->
                                 Obj(<<Field("blankId", newAnswers[i].k),
                                       Field("value", Str(trim(newAnswers[i].v)))>>)]))>>))>>)

\* QuestionCard.handleAnswerSelect
QuestionCardSelect(index, resp) ==
  IF convertToLegacyResponse(resp).kind = "throw" THEN convertToLegacyResponse(resp)
  ELSE [kind |-> "value", v |-> <<Num(index), Get(convertToLegacyResponse(resp).v, "answer")>>]

\* useResponseHandler.handleQuestionResponse
handleQuestionResponse(index, resp) == [kind |-> "value", v |-> <<Num(index), resp>>]

HostSelect(host, index, resp) ==
  IF host = "QuestionCard" THEN QuestionCardSelect(index, resp)
  ELSE handleQuestionResponse(index, resp)

RenderQuestion ==
  /\ pc = "ready"
  /\ run.phase = "select"
  /\ question' = autoMigrateQuestion(quiz.question)
  /\ display' = QuestionFactory([type |-> TagOf(autoMigrateQuestion(quiz.question))])
  /\ pc' = "rendered"
  /\ UNCHANGED <<types, configs, response, userAnswers, graded, result, quiz, run,
                 formatters>>

SelectOption ==
  /\ pc = "rendered"
  /\ run.phase = "select"
  /\ run.selections < MaxSelections
  /\ display.element = "MultipleChoiceQuestion"
  /\ \E optionLetter \in {"A", "B", "C", "D"} :
       /\ response' = MultipleChoiceSelect(quiz.questionIndex, optionLetter, run.now)
       /\ result' = HostSelect(quiz.host, quiz.questionIndex,
                               MultipleChoiceSelect(quiz.questionIndex, optionLetter, run.now))
  /\ run' = [run EXCEPT !.selections = @ + 1, !.now = @ + 1]
  /\ UNCHANGED <<types, configs, question, userAnswers, graded, quiz, formatters,
                 display, pc>>

UpdateAnswer ==
  /\ pc = "rendered"
  /\ run.phase = "select"
  /\ run.selections < MaxSelections
  /\ display.element = "CompletionQuestion"
  /\ \E i \in DOMAIN InputIds(question), value \in {<<"a">>, <<" ", "b">>} :
       LET newAnswers == WithAnswer(userAnswers, InputIds(question)[i], value)
       IN  /\ userAnswers' = newAnswers
           /\ response' = CompletionUpdateAnswer(quiz.questionIndex, newAnswers, run.now)
           /\ result' = HostSelect(quiz.host, quiz.questionIndex,
                                   CompletionUpdateAnswer(quiz.questionIndex, newAnswers,
                                                          run.now))
  /\ run' = [run EXCEPT !.selections = @ + 1, !.now = @ + 1]
  /\ UNCHANGED <<types, configs, question, graded, quiz, formatters, display, pc>>

NextSelect == RenderQuestion \/ SelectOption \/ UpdateAnswer

HostBlank(id, position) ==
  Obj((IF id = "" THEN <<>> ELSE <<Field("id", Id(id))>>)
      \o <<Field("position", Num(position)),
           Field("acceptedAnswers", Arr(<<Str(<<"a">>)>>))>>)

HostQuestions ==
  {Obj(<<Field("id", Id("q1")), Field("question", Id("Which one?")),
         Field("options", Arr(<<Id("one"), Id("two")>>)),
         Field("correctAnswer", Id("B"))>>),
   Obj(<<Field("id", Id("q1")), Field("type", Id("multiple-choice")),
         Field("question", Id("Which one?")),
         Field("content", Obj(<<Field("options", Arr(<<Id("one"), Id("two")>>)),
                                Field("correctAnswer", Id("B"))>>))>>),
   Obj(<<Field("id", Id("q1")), Field("type", Id("matching")),
         Field("question", Id("Match.")), Field("content", Obj(<<>>))>>)}
  \cup
  {Obj(<<Field("id", Id("q1")), Field("type", Id(tag)), Field("question", Id("Fill in.")),
         Field("content", Obj(<<Field("template", Id("____ and ____")),
                                Field("blanks", Arr(blanks))>>))>>) :
     tag \in {"completion", "fill-blank"},
     blanks \in {<<HostBlank("blank-1", 0)>>,
                 <<HostBlank("blank-1", 0), HostBlank("blank-2", 1)>>,
                 <<HostBlank("", 0), HostBlank("", 1)>>}}

InitSelect ==
  /\ RegistryLoaded
  /\ \E host \in {"QuestionCard", "GroupQuizActiveView"}, q \in HostQuestions :
       quiz = [path |-> "select", host |-> host, questionIndex |-> 0, question |-> q]
  /\ question = quiz.question
  /\ response = Undef
  /\ run = [phase |-> "select", now |-> 1, selections |-> 0]
  /\ userAnswers = <<>>
  /\ graded = <<>>
  /\ result = NotYet
  /\ display = NotYet
  /\ pc = "ready"

SpecSelect == InitSelect /\ [][NextSelect]_vars

(***************************************************************************)
(* QuestionTester (QuestionTypeDebug.tsx).  quiz holds the component's     *)
(* state: the response list, the selected question type and showResults.   *)
(* run.latest keeps, for each question index, the response of the most     *)
(* recent selection since the list was last emptied.                       *)
(***************************************************************************)
MaxIndex == 1

MaxTesterSelections == 3

\* prev.filter(r => r.questionIndex !== questionIndex)
RECURSIVE OtherIndexes(_, _)
OtherIndexes(prev, index) ==
  IF prev = <<>> THEN <<>>
  ELSE IF Get(Head(prev), "questionIndex") # Num(index)
  THEN <<Head(prev)>> \o OtherIndexes(Tail(prev), index)
  ELSE OtherIndexes(Tail(prev), index)

testerAnswerSelect_KeepHistory(prev, index, resp) == Append(prev, resp)

testerAnswerSelect(prev, index, resp) == Append(OtherIndexes(prev, index), resp)

\* responses.find(r => r.questionIndex === 0)
FirstAtZero(responses) ==
  IF \E i \in 1..Len(responses) : Get(responses[i], "questionIndex") = Num(0)
  THEN responses[CHOOSE i \in 1..Len(responses) :
                   /\ Get(responses[i], "questionIndex") = Num(0)
                   /\ \A j \in 1..(i - 1) : Get(responses[j], "questionIndex") # Num(0)]
  ELSE Undef

sampleQuestion(type) == IF type = "completion" THEN CompletionQ ELSE MultipleChoiceQ

\* The responses the rendered sample question's component calls back with.
ComponentResponses(type, index, now) ==
  IF type = "completion"
  THEN {CompletionUpdateAnswer(index, <<Field(Id("blank-1"), value)>>, now) :
          value \in {<<"a">>, <<"b">>}}
  ELSE {MultipleChoiceSelect(index, optionLetter, now) : optionLetter \in {"A", "B"}}

TesterAnswerSelect ==
  /\ pc = "ready"
  /\ run.phase = "tester"
  /\ run.now <= MaxTesterSelections
  /\ \E index \in 0..MaxIndex :
       \E resp \in ComponentResponses(quiz.selectedQuestionType, index, run.now) :
         /\ quiz' = [quiz EXCEPT !.responses = testerAnswerSelect(@, index, resp)]
         /\ run' = [run EXCEPT !.now = @ + 1, !.latest[index] = resp]
  /\ UNCHANGED <<types, configs, question, response, userAnswers, graded, result,
                 formatters, display, pc>>

TesterShowResults ==
  /\ pc = "ready"
  /\ run.phase = "tester"
  /\ ~quiz.showResults
  /\ quiz' = [quiz EXCEPT !.showResults = TRUE]
  /\ display' = IF FirstAtZero(quiz.responses) # Undef
                THEN [kind |-> "log",
                      evaluation |-> calculateScore(question, FirstAtZero(quiz.responses))]
                ELSE display
  /\ UNCHANGED <<types, configs, question, response, userAnswers, graded, result, run,
                 formatters, pc>>

TesterReset ==
  /\ pc = "ready"
  /\ run.phase = "tester"
  /\ quiz' = [quiz EXCEPT !.responses = <<>>, !.showResults = FALSE]
  /\ run' = [run EXCEPT !.latest = [index \in 0..MaxIndex |-> Undef]]
  /\ UNCHANGED <<types, configs, question, response, userAnswers, graded, result,
                 formatters, display, pc>>

TesterTypeChange ==
  /\ pc = "ready"
  /\ run.phase = "tester"
  /\ \E type \in getEnabledTypes :
       /\ quiz' = [quiz EXCEPT !.selectedQuestionType = type, !.responses = <<>>,
                               !.showResults = FALSE]
       /\ question' = sampleQuestion(type)
  /\ run' = [run EXCEPT !.latest = [index \in 0..MaxIndex |-> Undef]]
  /\ UNCHANGED <<types, configs, response, userAnswers, graded, result, formatters,
                 display, pc>>

NextTester == TesterAnswerSelect \/ TesterShowResults \/ TesterReset \/ TesterTypeChange

InitTester ==
  /\ RegistryLoaded
  /\ quiz = [path |-> "tester", selectedQuestionType |-> "multiple-choice",
             showResults |-> FALSE, responses |-> <<>>]
  /\ question = sampleQuestion("multiple-choice")
  /\ response = Undef
  /\ run = [phase |-> "tester", now |-> 1, latest |-> [index \in 0..MaxIndex |-> Undef]]
  /\ userAnswers = NoList
  /\ graded = <<>>
  /\ result = NotYet
  /\ display = NotYet
  /\ pc = "ready"

SpecTester == InitTester /\ [][NextTester]_vars

(***************************************************************************)
(* useGroupQuestionGeneration.  Each call of handleGenerateFromPreset runs *)
(* from its start to its first await in one step and then from one await  *)
(* to the next.  quiz.state is the hook's React state, quiz.closure what   *)
(* the handlers of the latest render see of it (and of the cached question *)
(* counts), quiz.questions the question sets stored for the session;       *)
(* run.calls is the position of each call.                                 *)
(***************************************************************************)
MaxCalls == 2

PresetIds == {"easy-mix", "custom-7"}

Calls == 1..MaxCalls

\* currentPreset && currentPreset.id === presetInfo.id && hasActualQuestions
isPresetAlreadyActive(closure, presetId) ==
  closure.currentPreset = presetId /\ closure.hasActualQuestions

\* The guards of handleGenerateFromPreset, up to its first await.
PresetGuards(loopData, presetId) ==
  IF ~Truthy(loopData) THEN "no loop data"
  ELSE IF isPresetAlreadyActive(quiz.closure, presetId) THEN "already active"
  ELSE IF quiz.closure.all THEN "in progress"
  ELSE "clearing"

At(call, position) == run.phase = "preset" /\ run.calls[call].at = position

Move(call, position) == run' = [run EXCEPT !.calls[call].at = position]

GenerateFromPreset(call) ==
  /\ At(call, "idle")
  /\ \E loopData \in {Null, Obj(<<Field("id", Id("loop-1"))>>)}, presetId \in PresetIds :
       run' = [run EXCEPT !.calls[call] =
                 [at |-> PresetGuards(loopData, presetId), preset |-> presetId]]
  /\ UNCHANGED <<types, configs, question, response, userAnswers, graded, result, quiz,
                 formatters, display, pc>>

\* await clearExistingQuestions() returns, whether the DELETE succeeded or
\* not; the call sets the flag and starts the generate-all mutation.
ClearedThenGenerate(call) ==
  /\ At(call, "clearing")
  /\ \E deleted \in BOOLEAN :
       quiz' = [quiz EXCEPT !.questions = IF deleted THEN 0 ELSE @,
                            !.deletions = @ + 1,
                            !.generations = @ + 1,
                            !.state.all = TRUE]
  /\ Move(call, "generating")
  /\ UNCHANGED <<types, configs, question, response, userAnswers, graded, result,
                 formatters, display, pc>>

\* The mutation succeeds: onSuccess, then setCurrentPreset and the await of
\* saveCurrentPreset.
GeneratedThenSave(call) ==
  /\ At(call, "generating")
  /\ quiz' = [quiz EXCEPT !.questions = @ + 1,
                          !.state.all = FALSE,
                          !.state.currentPreset = run.calls[call].preset]
  /\ Move(call, "saving")
  /\ UNCHANGED <<types, configs, question, response, userAnswers, graded, result,
                 formatters, display, pc>>

\* The mutation fails: onError, then the catch block up to its await.
GenerateFailed(call) ==
  /\ At(call, "generating")
  /\ quiz' = [quiz EXCEPT !.state.all = FALSE]
  /\ Move(call, "resetting")
  /\ UNCHANGED <<types, configs, question, response, userAnswers, graded, result,
                 formatters, display, pc>>

Saved(call) ==
  /\ At(call, "saving")
  /\ quiz' = [quiz EXCEPT !.state.all = FALSE]
  /\ Move(call, "returned")
  /\ UNCHANGED <<types, configs, question, response, userAnswers, graded, result,
                 formatters, display, pc>>

ResetAfterFailure(call) ==
  /\ At(call, "resetting")
  /\ \E deleted \in BOOLEAN :
       quiz' = [quiz EXCEPT !.questions = IF deleted THEN 0 ELSE @,
                            !.deletions = @ + 1]
  /\ Move(call, "returned")
  /\ UNCHANGED <<types, configs, question, response, userAnswers, graded, result,
                 formatters, display, pc>>

\* React renders the hook again: the handlers now close over the current
\* state and the refetched question counts.
Rerender ==
  /\ run.phase = "preset"
  /\ quiz' = [quiz EXCEPT !.closure = [all |-> quiz.state.all,
                                       currentPreset |-> quiz.state.currentPreset,
                                       hasActualQuestions |-> quiz.questions > 0]]
  /\ quiz' # quiz
  /\ UNCHANGED <<types, configs, question, response, userAnswers, graded, result, run,
                 formatters, display, pc>>

NextPreset ==
  \/ \E call \in Calls : GenerateFromPreset(call)
  \/ \E call \in Calls : ClearedThenGenerate(call)
  \/ \E call \in Calls : GeneratedThenSave(call)
  \/ \E call \in Calls : GenerateFailed(call)
  \/ \E call \in Calls : Saved(call)
  \/ \E call \in Calls : ResetAfterFailure(call)
  \/ Rerender

InitPreset ==
  /\ RegistryLoaded
  /\ \E stored \in 0..1, loaded \in {"none"} \cup PresetIds :
       quiz = [path |-> "preset", questions |-> stored, deletions |-> 0, generations |-> 0,
               state |-> [all |-> FALSE, currentPreset |-> loaded],
               closure |-> [all |-> FALSE, currentPreset |-> loaded,
                            hasActualQuestions |-> stored > 0]]
  /\ run = [phase |-> "preset",
            calls |-> [call \in Calls |-> [at |-> "idle", preset |-> "none"]]]
  /\ question = Null
  /\ response = Null
  /\ userAnswers = NoList
  /\ graded = <<>>
  /\ result = NotYet
  /\ display = NotYet
  /\ pc = "ready"

SpecPreset == InitPreset /\ [][NextPreset]_vars

(***************************************************************************)
(* QuestionGenerator.generateQuestionsWithRetry and AIUtils.  A question   *)
(* is an object with its text under question or transcript; the provider   *)
(* answers a request with any batch of questions, with a response that has *)
(* no questions array, or with an error.  quiz holds the call's arguments   *)
(* and local variables, result what it returned.                           *)
(***************************************************************************)
MaxAttempts == 5

MaxTarget == 2

MaxBatch == 2

SimilarityLength == 20

includes(text, part) ==
  \E offset \in 0..(Len(text) - Len(part)) :
    SubSeq(text, offset + 1, offset + Len(part)) = part

\* text.substring(0, 20)
substring20(text) ==
  SubSeq(text, 1, IF Len(text) < SimilarityLength THEN Len(text) ELSE SimilarityLength)

areQuestionsDuplicate(question1, question2) ==
  LET text1 == trim(toLowerCase(question1))
      text2 == trim(toLowerCase(question2))
  IN  IF text1 = text2 THEN TRUE
      ELSE IF Len(text1) > SimilarityLength /\ Len(text2) > SimilarityLength
      THEN includes(text1, substring20(text2)) \/ includes(text2, substring20(text1))
      ELSE FALSE

extractQuestionText(q) ==
  IF Truthy(Get(q, "question")) THEN trim(toLowerCase(Get(q, "question").s))
  ELSE IF Truthy(Get(q, "transcript")) THEN trim(toLowerCase(Get(q, "transcript").s))
  ELSE <<>>

IsDuplicateIn(questionText, existing) ==
  \E i \in 1..Len(existing) :
    areQuestionsDuplicate(extractQuestionText(existing[i]), questionText)

isQuestionUnique(questionText, finalQuestions, previousQuestions) ==
  ~IsDuplicateIn(questionText, finalQuestions)
    /\ ~IsDuplicateIn(questionText, previousQuestions)

\* The loop of processAIResponse over the questions of the response.
RECURSIVE CollectNew(_, _, _, _, _)
CollectNew(questions, newQuestions, finalQuestions, previousQuestions, questionsNeeded) ==
  IF questions = <<>> \/ Len(newQuestions) >= questionsNeeded THEN newQuestions
  ELSE CollectNew(
         Tail(questions),
         IF isQuestionUnique(extractQuestionText(Head(questions)),
                             finalQuestions, previousQuestions)
         THEN Append(newQuestions, Head(questions)) ELSE newQuestions,
         finalQuestions, previousQuestions, questionsNeeded)

processAIResponse(parsedResponse, finalQuestions, previousQuestions, questionsNeeded) ==
  IF ~Truthy(Get(parsedResponse, "questions")) \/ ~IsArray(Get(parsedResponse, "questions"))
  THEN [kind |-> "throw", error |-> "AI response missing questions array"]
  ELSE [kind |-> "value",
        newQuestions |-> CollectNew(Get(parsedResponse, "questions").a, <<>>,
                                    finalQuestions, previousQuestions, questionsNeeded)]

handleFinalFailure(finalQuestions) ==
  IF Len(finalQuestions) > 0 THEN [kind |-> "value", v |-> finalQuestions]
  ELSE [kind |-> "throw", error |-> "Question generation failed"]

finalizeFinalQuestions(finalQuestions, targetQuestionCount) ==
  LET trimmedQuestions ==
        SubSeq(finalQuestions, 1,
               IF Len(finalQuestions) < targetQuestionCount THEN Len(finalQuestions)
               ELSE targetQuestionCount)
  IN  IF Len(trimmedQuestions) = 0
      THEN [kind |-> "throw", error |-> "Failed to generate any valid questions"]
      ELSE [kind |-> "value", v |-> trimmedQuestions]

LongText(last) == [i \in 1..(SimilarityLength + 1) |-> "w"] \o <<last>>

QuestionTexts == {<<"a">>, <<"A", " ">>, <<"b">>, LongText("y"), LongText("z")}

GeneratedQuestions ==
  {Obj(<<Field("question", Str(text))>>) : text \in QuestionTexts}
    \cup {Obj(<<Field("transcript", Str(<<"a">>))>>)}

RECURSIVE Batches(_)
Batches(n) ==
  IF n = 0 THEN {<<>>}
  ELSE Batches(n - 1)
         \cup {Append(batch, q) : batch \in {b \in Batches(n - 1) : Len(b) = n - 1},
                                  q \in GeneratedQuestions}

\* What provider.chat and parseJSONResponse hand back for one request.
ProviderResponses ==
  {[kind |-> "throw", error |-> "provider error"],
   [kind |-> "value", v |-> Obj(<<>>)]}
    \cup {[kind |-> "value", v |-> Obj(<<Field("questions", Arr(batch))>>)] :
            batch \in Batches(MaxBatch)}

\* One pass of the while loop: one provider request.
GenerateAttempt ==
  /\ pc = "generating"
  /\ run.phase = "generate"
  /\ quiz.attempts < MaxAttempts
  /\ Len(quiz.finalQuestions) < quiz.targetQuestionCount
  /\ \E provided \in ProviderResponses :
       LET processed ==
             IF provided.kind = "throw" THEN provided
             ELSE processAIResponse(provided.v, quiz.finalQuestions,
                                    quiz.previousQuestions,
                                    quiz.targetQuestionCount - Len(quiz.finalQuestions))
       IN  IF processed.kind = "throw"
           THEN /\ quiz' = [quiz EXCEPT !.attempts = @ + 1]
                /\ IF quiz.attempts + 1 = MaxAttempts
                   THEN /\ result' = handleFinalFailure(quiz.finalQuestions)
                        /\ pc' = "returned"
                   ELSE UNCHANGED <<result, pc>>
           ELSE /\ quiz' = [quiz EXCEPT !.attempts = @ + 1,
                                        !.finalQuestions = @ \o processed.newQuestions]
                /\ UNCHANGED <<result, pc>>
  /\ UNCHANGED <<types, configs, question, response, userAnswers, graded, run,
                 formatters, display>>

\* The loop has ended: the list collected so far is finalized.
GenerateReturn ==
  /\ pc = "generating"
  /\ run.phase = "generate"
  /\ quiz.attempts >= MaxAttempts \/ Len(quiz.finalQuestions) >= quiz.targetQuestionCount
  /\ result' = finalizeFinalQuestions(quiz.finalQuestions, quiz.targetQuestionCount)
  /\ pc' = "returned"
  /\ UNCHANGED <<types, configs, question, response, userAnswers, graded, quiz, run,
                 formatters, display>>

NextGenerate == GenerateAttempt \/ GenerateReturn

InitGenerate ==
  /\ RegistryLoaded
  /\ \E targetQuestionCount \in 1..MaxTarget,
        previousQuestions \in {<<>>} \cup {<<q>> : q \in GeneratedQuestions} :
       quiz = [path |-> "generate", targetQuestionCount |-> targetQuestionCount,
               previousQuestions |-> previousQuestions, finalQuestions |-> <<>>,
               attempts |-> 0]
  /\ run = [phase |-> "generate"]
  /\ question = Null
  /\ response = Null
  /\ userAnswers = NoList
  /\ graded = <<>>
  /\ result = NotYet
  /\ display = NotYet
  /\ pc = "generating"

SpecGenerate == InitGenerate /\ [][NextGenerate]_vars

(***************************************************************************)
(* A completion response kept in the flat form {questionIndex, answer}:    *)
(* it is stored with convertResponseToLegacyFormat, loaded through         *)
(* autoMigrateResponse and then scored.  quiz keeps the response as it was *)
(* submitted.                                                              *)
(***************************************************************************)
StoreFlat ==
  /\ pc = "answered"
  /\ run.phase = "flat"
  /\ convertResponseToLegacyFormat(response).kind = "value"
  /\ response' = Obj(<<Field("questionIndex", Get(response, "questionIndex")),
                       Field("answer", convertResponseToLegacyFormat(response).v)>>)
  /\ pc' = "stored"
  /\ UNCHANGED <<types, configs, question, userAnswers, graded, result, quiz, run,
                 formatters, display>>

LoadFlat ==
  /\ pc = "stored"
  /\ run.phase = "flat"
  /\ response' = autoMigrateResponse(response, run.now)
  /\ run' = [run EXCEPT !.now = @ + 1]
  /\ pc' = "ready"
  /\ UNCHANGED <<types, configs, question, userAnswers, graded, result, quiz,
                 formatters, display>>

NextFlat == StoreFlat \/ LoadFlat \/ Score

FlatEntries ==
  {Answer(id, text) : id \in {"blank-1", "blank-2"}, text \in {<<"a">>, <<"b">>}}

InitFlat ==
  /\ RegistryLoaded
  /\ question \in
       {Question(blanks) :
          blanks \in SeqsUpTo({Blank(Id(id), FALSE, <<Str(<<"a">>)>>) :
                                 id \in {"blank-1", "blank-2"}}, MaxBlanks)}
  /\ response \in
       {Obj(<<Field("questionIndex", Num(0)), Field("questionType", Id(tag)),
              Field("timestamp", Num(0)),
              Field("response", Obj(<<Field("answers", Arr(l))>>))>>) :
          tag \in {"completion", "fill-blank"}, l \in SeqsUpTo(FlatEntries, MaxAnswers)}
  /\ quiz = [path |-> "flat", response |-> response]
  /\ run = [phase |-> "flat", now |-> 1]
  /\ userAnswers = NoList
  /\ graded = <<>>
  /\ result = NotYet
  /\ display = NotYet
  /\ pc = "answered"

SpecFlat == InitFlat /\ [][NextFlat]_vars

Done == pc = "done"

Returned == Done /\ result.kind = "value"

One == [n |-> 1, d |-> 1]

(***************************************************************************)
(* The shapes in which a response can carry an answer list, each read off  *)
(* the response alone.                                                     *)
(***************************************************************************)
CanonicalList(r) ==
  LET inner == Get(r, "response")
  IN IF inner.t = "obj" /\ Get(inner, "answers").t = "arr"
     THEN Get(inner, "answers") ELSE NoList

DirectList(r) ==
  IF Get(r, "answers").t = "arr" THEN Get(r, "answers") ELSE NoList

BareList(r) ==
  IF Get(r, "response").t = "arr" THEN Get(r, "response") ELSE NoList

HasAnswerString(r) ==
  LET text == Get(r, "answer")
  IN text.t = "str" /\ text # Str(<<>>)

EncodedList(r) ==
  LET text == Get(r, "answer")
  IN IF text.t = "str" /\ "enc" \in DOMAIN text
     THEN IF text.enc.t = "arr" THEN text.enc
          ELSE IF text.enc.t = "obj" /\ Get(text.enc, "answers").t = "arr"
               THEN Get(text.enc, "answers")
               ELSE NoList
     ELSE NoList

IsAnswerArray(v) ==
  /\ v.t = "arr"
  /\ v.a # <<>>
  /\ v.a[1].t = "obj"
  /\ \E i \in 1..Len(v.a[1].e) : v.a[1].e[i].k \in {"blankId", "value"}

ScannedList(r) ==
  LET candidates ==
        {i \in 1..Len(r.e) :
           /\ r.e[i].k \notin {"questionIndex", "questionType", "timestamp"}
           /\ \/ IsAnswerArray(r.e[i].v)
              \/ r.e[i].v.t = "obj" /\ Get(r.e[i].v, "answers").t = "arr"}
  IN IF candidates = {} THEN NoList
     ELSE LET i == CHOOSE c \in candidates : \A d \in candidates : c <= d
          IN IF r.e[i].v.t = "arr" THEN r.e[i].v ELSE Get(r.e[i].v, "answers")

\* The first list of a sequence of shapes, NoList when none holds one.
RECURSIVE FirstList(_)
FirstList(lists) ==
  IF lists = <<>> THEN NoList
  ELSE IF Head(lists) # NoList THEN Head(lists) ELSE FirstList(Tail(lists))

\* C1: every evaluation the scorer returns has possible = N,
\* 0 <= earned <= N, score = earned / N when N > 0 and score = 0 when N = 0.
C1_PartialCreditMatchesScore ==
  Returned =>
    LET N == Len(question.blanks)
        credit == result.partialCredit
    IN /\ credit.possible = N
       /\ 0 <= credit.earned /\ credit.earned <= N
       /\ result.score.d > 0
       /\ N > 0 => result.score.n * N = credit.earned * result.score.d
       /\ N = 0 => result.score.n = 0

C1_Witness ==
  /\ Returned
  /\ Len(question.blanks) = 2
  /\ result.partialCredit.earned = 1
  /\ result.score = [n |-> 1, d |-> 2]

\* C2: the returned evaluation has isCorrect = TRUE if and only if its score
\* is 1, also for a question without blanks.
C2_CorrectIffFullScore ==
  Returned => (result.isCorrect <=> result.score = One)

\* C3: the scorer never raises; it returns a well-formed evaluation for
\* every response.
C3_NeverRaises ==
  Done =>
    /\ result.kind = "value"
    /\ result.isCorrect \in BOOLEAN
    /\ 0 <= result.score.n /\ result.score.n <= result.score.d
    /\ result.maxScore = 1

\* C4: when no shape of the response holds an answer list, the evaluation is
\* the no-answers one: not correct, score 0, earned 0, possible N, every
\* blank's detail incorrect, and the 'No answers provided' feedback.
C4_NoAnswersEvaluation ==
  (/\ Done
   /\ FirstList(<<CanonicalList(response), DirectList(response), BareList(response),
                  EncodedList(response), ScannedList(response)>>) = NoList)
  =>
    /\ result.kind = "value"
    /\ result.isCorrect = FALSE
    /\ result.score = Zero
    /\ result.partialCredit.earned = 0
    /\ result.partialCredit.possible = Len(question.blanks)
    /\ \A i \in 1..Len(question.blanks) :
         result.partialCredit.details[i] =
           "blank-" \o BlankIdOf(question.blanks[i], i - 1).id \o "-incorrect"
    /\ result.feedback = NoAnswersFeedback

\* C6 as stated: the list graded is that of the earliest shape in the order
\* {answers: [...]} object, bare array, JSON-encoded string, scan of the own
\* fields.  Restricted to responses whose answer string, if any, encodes a
\* list, so that only the order is at stake.
C6_ClaimedShapeOrder ==
  (/\ Done
   /\ HasAnswerString(response) => EncodedList(response) # NoList)
  =>
    userAnswers =
      FirstList(<<CanonicalList(response), DirectList(response), BareList(response),
                  EncodedList(response), ScannedList(response)>>)

\* C6 amended: the list graded is that of the earliest shape in the order
\* response.response.answers, response.answers, the answer string,
\* response.response as an array, scan of the own fields; a non-empty answer
\* string counts as present whatever it encodes.
C6_ShapeOrder ==
  Done =>
    LET canonical == CanonicalList(response)
        direct == DirectList(response)
        early == canonical # NoList \/ direct # NoList
    IN /\ canonical # NoList => userAnswers = canonical
       /\ canonical = NoList /\ direct # NoList => userAnswers = direct
       /\ ~early /\ EncodedList(response) # NoList => userAnswers = EncodedList(response)
       /\ ~early /\ ~HasAnswerString(response) =>
            userAnswers = FirstList(<<BareList(response), ScannedList(response)>>)

C6_Witness ==
  /\ Done
  /\ BareList(response) # NoList
  /\ EncodedList(response) # NoList
  /\ BareList(response) # EncodedList(response)
  /\ userAnswers = EncodedList(response)
  /\ result.kind = "value"

\* The value an answer entry submits, as the scorer reads it for grading.
SubmittedValue(entry) == trim(Get(entry, "value").s)

\* C7: the blank at position i is graded on the answer whose blankId equals
\* the blank's identifier when there is one, and otherwise on the i-th
\* answer, on the empty value when there is none.
C7_IdentifierThenPosition ==
  Returned =>
    \A i \in 1..Len(question.blanks) :
      LET blank == question.blanks[i]
          items == userAnswers.a
          identifier == IF blank.id.t = "str" THEN blank.id
                        ELSE Id("blank-" \o ToString(i - 1))
          named == {j \in 1..Len(items) : Get(items[j], "blankId") = identifier}
      IN graded[i].userValue =
           IF named # {}
             THEN SubmittedValue(items[CHOOSE j \in named : \A k \in named : j <= k])
           ELSE IF i <= Len(items) THEN SubmittedValue(items[i])
           ELSE <<>>

\* The text s without its leading and trailing blanks.
IsCoreOf(c, s) ==
  \E i \in 0..Len(s), j \in 0..Len(s) :
    /\ i + j <= Len(s)
    /\ c = SubSeq(s, i + 1, Len(s) - j)
    /\ \A k \in 1..i : s[k] = " "
    /\ \A k \in (Len(s) - j + 1)..Len(s) : s[k] = " "
    /\ c # <<>> => c[1] # " " /\ c[Len(c)] # " "

Core(s) ==
  CHOOSE c \in {SubSeq(s, i, j) : i \in 1..(Len(s) + 1), j \in 0..Len(s)} : IsCoreOf(c, s)

SameText(x, y, caseSensitive) ==
  /\ Len(x) = Len(y)
  /\ \A k \in 1..Len(x) :
       x[k] = y[k] \/ (~caseSensitive /\ Lower(x[k]) = Lower(y[k]))

\* C8: a blank is graded correct exactly when the submitted value without
\* its outer whitespace equals an accepted answer without its outer
\* whitespace, letter case ignored unless the blank is case sensitive.
C8_TrimmedCaseFoldedMatch ==
  Returned =>
    LET blank == question.blanks[1]
        submitted == Get(CanonicalList(response).a[1], "value").s
    IN graded[1].isCorrect <=>
         \E k \in 1..Len(blank.acceptedAnswers.a) :
           SameText(Core(submitted), Core(blank.acceptedAnswers.a[k].s),
                    blank.caseSensitive)

C8_Witness ==
  /\ Returned
  /\ ~question.blanks[1].caseSensitive
  /\ question.blanks[1].acceptedAnswers = Arr(<<Str(Paris)>>)
  /\ Get(CanonicalList(response).a[1], "value") = Str(<<" ", "P", "A", "R", "I", "S", " ">>)
  /\ graded[1].isCorrect
  /\ result.isCorrect

C10_FeedbackByScore ==
  Returned =>
    LET score == result.score
        outOf == ToString(result.partialCredit.earned) \o " out of "
                   \o ToString(result.partialCredit.possible)
        below(n, d) == score.n * d < n * score.d
    IN /\ score = One <=> result.feedback = "Excellent! All blanks filled correctly."
       /\ ~below(7, 10) /\ below(1, 1) =>
            result.feedback = "Good work! " \o outOf \o " blanks correct."
       /\ ~below(4, 10) /\ below(7, 10) =>
            result.feedback = "Partial credit. " \o outOf
                                \o " blanks correct. Review the incorrect answers."
       /\ below(4, 10) =>
            result.feedback = "More practice needed. Only " \o outOf \o " blanks correct."

\* C5: in the results computations the scorer is reached only with
\* responses that validateResponse accepts for the question's tag.
C5_ScoredOnlyAfterValidation ==
  \A k \in 1..Len(run.scorerCalls) :
    validateResponse(run.scorerCalls[k].type, run.scorerCalls[k].response)

\* The option a multiple-choice response selects.
Selected(r) == Get(Get(r, "response"), "selectedOption")

\* C11: for every multiple-choice question and response (a response that
\* carries a response object), calculateMultipleChoiceScore returns score 1
\* when the selected option equals the correct answer and 0 otherwise,
\* isCorrect exactly when the score is 1, no partial credit, and on failure
\* the feedback that names the correct answer.
C11_ChoiceScoreIsExactMatch ==
  (pc # "ready" /\ question.type = "multiple-choice"
     /\ ~IsNullish(Get(response, "response"))) =>
    /\ result.kind = "value"
    /\ result.score = (IF Selected(response) = question.correctAnswer THEN One ELSE Zero)
    /\ result.isCorrect <=> (result.score = One)
    /\ result.maxScore = 1
    /\ "partialCredit" \notin DOMAIN result
    /\ (~result.isCorrect /\ question.correctAnswer # Undef) =>
         result.feedback
           = "Incorrect. The correct answer is " \o question.correctAnswer.id \o "."

C11_Witness ==
  /\ pc = "scored"
  /\ question.correctAnswer = Id("B")
  /\ Selected(response) = Id("C")
  /\ result.score = Zero
  /\ ~result.isCorrect
  /\ result.feedback = "Incorrect. The correct answer is B."

\* The tag family of a tag: completion and fill-blank are one family.
Family(tag) == IF tag \in {"completion", "fill-blank"} THEN "completion" ELSE tag

\* What the claim asks of an accepted response r under tag.
Wellformed(tag, r) ==
  /\ IsObject(r)
  /\ IsString(Get(r, "questionType"))
  /\ Family(Get(r, "questionType").id) = Family(tag)
  /\ IsObject(Get(r, "response"))
  /\ Family(tag) = "completion" =>
       /\ IsArray(Get(Get(r, "response"), "answers"))
       /\ \A i \in 1..Len(Get(Get(r, "response"), "answers").a) :
            LET answer == Get(Get(r, "response"), "answers").a[i]
            IN /\ IsObject(answer)
               /\ HasOwn(answer, "blankId") /\ IsString(Get(answer, "blankId"))
               /\ HasOwn(answer, "value") /\ IsString(Get(answer, "value"))
  /\ Family(tag) = "multiple-choice" =>
       /\ HasOwn(Get(r, "response"), "selectedOption")
       /\ Selected(r) \in {Id(letter) : letter \in Letters}

\* C12: validateResponse(tag, r) returns true only when r carries the tag
\* (completion and fill-blank being aliases), has the response shape of the
\* tag and every required sub-field as a string; an accepted response with
\* an extra field is still accepted, and an accepted response with a
\* required field removed is rejected.
C12_ValidatorStrictOnMissingOnly ==
  pc = "validated" =>
    /\ display.ok => Wellformed(question.type, response)
    /\ (run.phase = "amended" /\ run.before /\ run.kind = "extra") => display.ok
    /\ (run.phase = "amended" /\ run.before /\ run.kind = "removed") => ~display.ok

C12_Witness ==
  /\ pc = "validated"
  /\ run.phase = "amended"
  /\ run.before
  /\ run.kind = "extra"
  /\ question.type = "fill-blank"
  /\ Get(response, "questionType") = Id("completion")
  /\ Len(Get(Get(response, "response"), "answers").a) = 2
  /\ HasOwn(Get(Get(response, "response"), "answers").a[2], "extra")
  /\ display.ok

\* A step that is a lookup call: the only steps that write display.
Looked(op) == display' # display /\ display'.op = op

\* The config object as its module defines it, but for the two flags.
Defined(config) ==
  IF config = "multipleChoiceConfig" THEN multipleChoiceConfig ELSE completionConfig

\* C13: in every order of register calls and lookups, a lookup of a tag
\* uses exactly the bundle of the latest register call for the tag: that
\* object and every field of it, none from a bundle registered before.
C13_LastRegisterWins ==
  [][question.type \in DOMAIN run.last =>
       LET last == run.last[question.type]
       IN /\ Looked("getConfig") =>
               /\ display'.outcome =
                    [kind |-> "value", ref |-> last, config |-> configs[last]]
               /\ \A f \in {"component", "previewComponent", "responseValidator",
                             "scoreCalculator", "promptTemplate"} :
                    display'.outcome.config[f] = Defined(last)[f]
          /\ Looked("getComponent") =>
               display'.outcome = [kind |-> "value", component |-> Defined(last).component]
          /\ Looked("validateResponse") =>
               display'.outcome = RunValidator(Defined(last).responseValidator, response)
          /\ Looked("calculateScore") =>
               display'.outcome = RunScorer(Defined(last).scoreCalculator, question, response)
    ]_vars

C13_Witness ==
  /\ display.kind = "lookup"
  /\ display.op = "getConfig"
  /\ question.type = "completion"
  /\ run.last["completion"] = "multipleChoiceConfig"
  /\ display.outcome.kind = "value"
  /\ display.outcome.ref = "multipleChoiceConfig"
  /\ display.outcome.config.promptTemplate = Undef

\* C14: for a tag no register call has named, getConfig, getComponent,
\* getPreviewComponent and calculateScore raise the not-registered error,
\* validateResponse, isRegistered and isEnabled return false, and the call
\* leaves the registry as it was.
C14_UnregisteredLookups ==
  [][question.type \notin DOMAIN run.last =>
       /\ \A op \in {"getConfig", "getComponent", "getPreviewComponent", "calculateScore"} :
            Looked(op) => display'.outcome = NotRegistered
       /\ \A op \in {"validateResponse", "isRegistered", "isEnabled"} :
            Looked(op) => display'.outcome = FALSE
       /\ display' # display => (types' = types /\ configs' = configs)
    ]_vars

C14_Witness ==
  /\ display.kind = "lookup"
  /\ display.op = "isEnabled"
  /\ question.type = "matching"
  /\ "matching" \notin DOMAIN run.last
  /\ display.outcome = FALSE
  /\ configs["completionConfig"].isProduction

\* C15: after any register, setEnabled and setProductionReady calls,
\* getEnabledTypes is the registered tags that are enabled,
\* getProductionTypes the registered tags that are enabled and production
\* ready, production within enabled within getAllTypes, and getStatus
\* reports the sizes of the three sets and developmentTypes = enabledTypes
\* - productionTypes >= 0.
C15_FilteredViews ==
  [][LET registered == {type \in Tags : type \in DOMAIN types}
         enabled == {type \in registered : isEnabled(type)}
         production == {type \in enabled : configs[types[type]].isProduction}
     IN /\ Looked("getAllTypes") => display'.outcome = registered
        /\ Looked("getEnabledTypes") => display'.outcome = enabled
        /\ Looked("getProductionTypes") => display'.outcome = production
        /\ Looked("getStatus") =>
             /\ display'.outcome.totalTypes = Cardinality(registered)
             /\ display'.outcome.enabledTypes = Cardinality(enabled)
             /\ display'.outcome.productionTypes = Cardinality(production)
             /\ display'.outcome.developmentTypes =
                  display'.outcome.enabledTypes - display'.outcome.productionTypes
             /\ display'.outcome.developmentTypes >= 0
        /\ getProductionTypes \subseteq getEnabledTypes
        /\ getEnabledTypes \subseteq getAllTypes
    ]_vars

C15_Witness ==
  /\ display.kind = "lookup"
  /\ display.op = "getProductionTypes"
  /\ display.outcome = {"completion", "fill-blank"}
  /\ DOMAIN types = Tags
  /\ ~configs["multipleChoiceConfig"].isEnabled
  /\ configs["multipleChoiceConfig"].isProduction

\* C16: QuestionFactory returns an element and never raises: the
\* unsupported-type placeholder for a tag that is not registered, the
\* disabled placeholder for a registered tag that is disabled, and the
\* registered component of the tag exactly when canRenderQuestion holds.
C16_FactoryPlaceholders ==
  [][Looked("QuestionFactory") =>
       LET registered == question.type \in DOMAIN types
           enabled == registered /\ configs[types[question.type]].isEnabled
       IN /\ display'.outcome.kind = "value"
          /\ ~registered => display'.outcome.element = "UnsupportedQuestionType"
          /\ (registered /\ ~enabled) => display'.outcome.element = "DisabledQuestionType"
          /\ canRenderQuestion(question) <=> (registered /\ enabled)
          /\ canRenderQuestion(question) <=>
               /\ registered
               /\ display'.outcome.element = configs[types[question.type]].component
    ]_vars

C16_Witness ==
  /\ display.kind = "lookup"
  /\ display.op = "QuestionFactory"
  /\ question.type = "fill-blank"
  /\ display.outcome = Element("DisabledQuestionType")
  /\ ~configs[types["fill-blank"]].isEnabled

\* The stored responses of the question at index, in stored order, and the
\* result entries for that index.
ResponsesAt(index) == SelectSeq(quiz.responses, LAMBDA r : IndexOf(r) = index)

EntriesAt(index) == SelectSeq(result.results, LAMBDA e : e.questionIndex = index)

\* What the finished computation holds for every question.
EntriesPerQuestion ==
  (pc = "done" /\ result.kind = "results") =>
    LET questions == Flatten(quiz.groups)
    IN /\ quiz.path = "page" =>
            /\ Len(result.results) =
                 Len(SelectSeq(quiz.responses, LAMBDA r : IndexOf(r) < Len(questions)))
            /\ \A index \in 0..(Len(questions) - 1) :
                 /\ Len(EntriesAt(index)) = Len(ResponsesAt(index))
                 /\ \A k \in 1..Len(ResponsesAt(index)) :
                      LET q == questions[index + 1]
                          evaluation == calculateScore(q, ResponsesAt(index)[k])
                          entry == EntriesAt(index)[k]
                      IN /\ entry.kind = "fallback" <=> evaluation.kind = "throw"
                         /\ q.type \notin DOMAIN types => evaluation.kind = "throw"
                         /\ entry.kind # "fallback" =>
                              /\ entry.kind = "scored"
                              /\ entry.isCorrect = evaluation.isCorrect
                              /\ entry.points = evaluation.score
                         /\ q.type \in DOMAIN types =>
                              \E c \in 1..Len(run.scorerCalls) :
                                run.scorerCalls[c] = ScorerCall(q, ResponsesAt(index)[k])
       /\ quiz.path = "route" =>
            /\ Len(result.results) = Len(questions)
            /\ \A index \in 0..(Len(questions) - 1) :
                 LET q == questions[index + 1]
                     entry == result.results[index + 1]
                 IN IF ResponsesAt(index) = <<>> THEN entry.kind = "raw"
                    ELSE LET evaluation == calculateScore(q, ResponsesAt(index)[1])
                         IN /\ entry.kind = "raw" <=> evaluation.kind = "throw"
                            /\ q.type \notin DOMAIN types => evaluation.kind = "throw"
                            /\ entry.kind # "raw" =>
                                 /\ entry.kind = "scored"
                                 /\ entry.isCorrect = evaluation.isCorrect
                                 /\ entry.points = evaluation.score

\* C17: in the results computation a question whose tag is not registered,
\* or whose evaluation raises, gets a fallback entry and no other question
\* does: every answered question has its entry, every answered question
\* with a registered tag is handed to its scorer, an entry that is not a
\* fallback carries the scorer's verdict, and the overall result is
\* produced: until it is, the computation is in its loop, which no
\* question has left, with its index within the quiz.
C17_FallbackForThatQuestionOnly ==
  /\ EntriesPerQuestion
  /\ pc # "done" =>
       /\ run.phase = quiz.path
       /\ run.i <= 1 + (IF run.phase = "page" THEN Len(quiz.groups)
                         ELSE Len(Flatten(quiz.groups)))
       /\ Len(run.allResults) <= Len(quiz.responses) + Len(Flatten(quiz.groups))

C17_Witness ==
  /\ pc = "done"
  /\ result.kind = "results"
  /\ quiz.path = "page"
  /\ quiz.groups = <<<<MatchingQ>>, <<MultipleChoiceQ>>>>
  /\ Len(result.results) = 2
  /\ result.results[1].kind = "fallback"
  /\ result.results[2].kind = "scored"
  /\ result.results[2].isCorrect

\* C18: every scorer and formatter call leaves its arguments as they were:
\* after calculateScore and after the formatter calls of formatResult the
\* question, the order of its blanks included, and the response are the
\* same as before the call.
C18_ArgumentsUnchanged ==
  [][question' = question /\ response' = response]_vars

\* The text the claim gives a letter of a multiple-choice question: the
\* letter with the text of its option, the bare letter where the question
\* has no such option, missing where there is no letter.
LetterIndex(letter) == CHOOSE i \in 1..4 : <<"A", "B", "C", "D">>[i] = letter

Decorated(q, letter, missing) ==
  IF ~Truthy(letter) THEN Id(missing)
  ELSE IF /\ letter.id \in Letters
          /\ IsArray(q.options)
          /\ LetterIndex(letter.id) <= Len(q.options.a)
          /\ Truthy(q.options.a[LetterIndex(letter.id)])
       THEN Id(letter.id \o ". " \o q.options.a[LetterIndex(letter.id)].id)
       ELSE letter

\* C19: with the registration modules loaded, formatResult on a
\* multiple-choice question gives as user answer the selected letter with
\* its option text, else the bare letter, else 'No answer selected', and as
\* correct answer the correct letter with its option text, else the bare
\* letter, else 'Unknown'.
C19_ChoiceDecorated ==
  (/\ pc = "done"
   /\ question.type = "multiple-choice"
   /\ display.kind = "value"
   /\ Selected(response) \in {Undef} \cup {Id(letter) : letter \in Letters}) =>
    /\ display.userAnswer = Decorated(question, Selected(response), "No answer selected")
    /\ display.correctAnswer = Decorated(question, question.correctAnswer, "Unknown")

\* C20: formatResult and formatResultStructured return to the caller and
\* never raise; for a question whose tag has no formatter they return the
\* JSON text of the raw response as user answer, evaluation.correctAnswer or
\* a default text as correct answer, evaluation.feedback, else the
\* question's explanation, else a default text as explanation, and the
\* evaluation's isCorrect and score.
C20_FormatNeverRaises ==
  (pc = "done" /\ display # NotYet) =>
    /\ display.kind = "value"
    /\ question.type \notin DOMAIN formatters =>
         /\ "enc" \in DOMAIN display.userAnswer
         /\ display.userAnswer.enc \in {response, Get(response, "response")}
         /\ display.correctAnswer =
              (IF Truthy(result.correctAnswer) THEN result.correctAnswer
               ELSE Id("See explanation"))
         /\ display.explanation =
              (IF result.feedback # "" THEN Id(result.feedback)
               ELSE IF Truthy(question.explanation) THEN question.explanation
               ELSE Id("No explanation available"))
         /\ display.isCorrect = result.isCorrect
         /\ display.score = result.score

\* C21: autoMigrateQuestion and autoMigrateResponse are idempotent and pass
\* tagged input through: a second application returns what the first
\* returned, what an application returns is never classified as legacy,
\* and an input that has the content field, or the questionType field, of
\* the tagged format is returned as it is.
C21_AutoMigrateIdempotent ==
  [][/\ run'.questionPasses > run.questionPasses =>
          /\ ~isLegacyQuestion(question')
          /\ run.questionPasses >= 1 => question' = question
          /\ Truthy(Get(question, "content")) => question' = question
     /\ run'.responsePasses > run.responsePasses =>
          /\ ~isLegacyResponse(response')
          /\ run.responsePasses >= 1 => response' = response
          /\ Truthy(Get(response, "questionType")) => response' = response
    ]_vars

C21_Witness ==
  /\ run.phase = "migration"
  /\ run.responsePasses = 2
  /\ isLegacyResponse(quiz.response)
  /\ Get(quiz.response, "answer") = Id("B")
  /\ Get(response, "questionType") = Id("multiple-choice")
  /\ Get(response, "timestamp") = Num(1)
  /\ Get(Get(response, "response"), "selectedOption") = Id("B")

\* C22: convertToLegacyResponse returns {questionIndex, answer:
\* selectedOption} for a multiple-choice response, so that it gives back
\* every legacy response that migrateLegacyResponse migrated, and raises
\* the error 'not implemented for question type X' for a response of any
\* other tag.
C22_ReverseConversion ==
  (pc = "converted" /\ response.t = "obj") =>
    /\ (/\ Get(response, "questionType") = Id("multiple-choice")
        /\ Get(response, "response").t = "obj") =>
         display = [kind |-> "value",
                    v |-> Obj(<<Field("questionIndex", Get(response, "questionIndex")),
                                Field("answer", Selected(response))>>)]
    /\ (/\ run.responsePasses >= 1
        /\ isLegacyResponse(quiz.response)
        /\ Len(quiz.response.e) = 2) =>
         display = [kind |-> "value", v |-> quiz.response]
    /\ \A tag \in {"completion", "fill-blank", "matching"} :
         Get(response, "questionType") = Id(tag) =>
           display = [kind |-> "throw",
                      error |-> "Legacy conversion not implemented for question type: "
                                  \o tag]
    /\ Get(response, "questionType") # Id("multiple-choice") =>
         (display.kind = "throw" /\ display.error # "TypeError")

C22_Witness ==
  /\ pc = "converted"
  /\ run.responsePasses = 1
  /\ quiz.response = Obj(<<Field("questionIndex", Num(0)), Field("answer", Id("B"))>>)
  /\ display = [kind |-> "value", v |-> quiz.response]
\* C23: from a question of a registered and enabled type whose component was
\* rendered, no answer selection ends in the host's callback raising.
C23_SelectionNeverRaises ==
  (/\ pc = "rendered"
   /\ run.phase = "select"
   /\ canRenderQuestion([type |-> TagOf(question)])
   /\ run.selections > 0)
  => result.kind = "value"

\* C24: after any sequence of answer selections in the question tester the
\* response list holds, for each question index, no response when none was
\* selected since the list was emptied and otherwise exactly one, the
\* response of the most recent selection for that index.
C24_LastWriteWins ==
  run.phase = "tester" =>
    \A index \in 0..MaxIndex :
      LET at == {i \in 1..Len(quiz.responses) :
                   Get(quiz.responses[i], "questionIndex") = Num(index)}
      IN  /\ Cardinality(at) <= 1
          /\ run.latest[index] = Undef => at = {}
          /\ run.latest[index] # Undef =>
               \E i \in at : quiz.responses[i] = run.latest[index]

C24_Witness ==
  /\ run.phase = "tester"
  /\ Len(quiz.responses) = 2
  /\ run.now = 4
  /\ Get(Get(quiz.responses[2], "response"), "selectedOption") = Id("B")
  /\ Get(quiz.responses[2], "questionIndex") = Num(0)

\* C25: while one handleGenerateFromPreset call is between passing its
\* guards and returning, every other call returns at its guards: at most one
\* call is deleting, generating or saving at a time.
C25_OneGenerationAtATime ==
  run.phase = "preset" =>
    Cardinality({call \in Calls :
                   run.calls[call].at \in {"clearing", "generating", "saving",
                                           "resetting"}}) <= 1

\* C26: a list returned by generateQuestionsWithRetry was collected in at
\* most 5 provider requests, has at most targetQuestionCount entries, no two
\* of them duplicates of each other and none a duplicate of a previous
\* question.
C26_ReturnedListUnique ==
  (run.phase = "generate" /\ pc = "returned" /\ result.kind = "value") =>
    /\ quiz.attempts <= 5
    /\ Len(result.v) <= quiz.targetQuestionCount
    /\ \A i, j \in 1..Len(result.v) :
         i # j => ~areQuestionsDuplicate(extractQuestionText(result.v[i]),
                                         extractQuestionText(result.v[j]))
    /\ \A i \in 1..Len(result.v) :
         ~IsDuplicateIn(extractQuestionText(result.v[i]), quiz.previousQuestions)

\* C27: a setEnabled or setProductionReady call that changes the stored
\* flags is a call for some tag t that leaves isEnabled(u) and u's
\* membership in getEnabledTypes() and getProductionTypes() as they were
\* for every other registered tag u.
C27_SettersChangeOneTag ==
  [][(run.phase = "registry" /\ configs' # configs) =>
       \E type \in DOMAIN types :
         /\ \E flag \in BOOLEAN :
              \/ configs' = setEnabled(type, flag)
              \/ configs' = setProductionReady(type, flag)
         /\ \A other \in DOMAIN types \ {type} :
              /\ isEnabled(other)' = isEnabled(other)
              /\ (other \in getEnabledTypes)' = (other \in getEnabledTypes)
              /\ (other \in getProductionTypes)' = (other \in getProductionTypes)]_vars

\* C28: in a graded response each entry of the answer list is used to
\* grade at most one blank of the question, the blanks having distinct
\* identifiers.
C28_EntryGradesOneBlank ==
  (/\ pc = "done"
   /\ result.kind = "value"
   /\ IsArray(userAnswers)
   /\ \A i, j \in 1..Len(question.blanks) :
        i # j => BlankIdOf(question.blanks[i], i - 1) # BlankIdOf(question.blanks[j], j - 1))
  => \A i, j \in 1..Len(question.blanks) :
       (/\ i # j
        /\ PickedIndex(userAnswers.a, question.blanks[i], i - 1) # 0)
       => PickedIndex(userAnswers.a, question.blanks[i], i - 1)
            # PickedIndex(userAnswers.a, question.blanks[j], j - 1)

\* The values the scorer graded, one per blank, in the order of display:
\* the blanks by position.
GradedForDisplay(q, resp) ==
  LET checks == CheckBlanks(q, ExtractUserAnswers(resp).v)
      valued == [i \in 1..Len(q.blanks) |->
                   [f \in DOMAIN q.blanks[i] \cup {"userValue"} |->
                      IF f = "userValue" THEN checks[i].userValue ELSE q.blanks[i][f]]]
      sorted == sortByPosition(valued)
  IN [k \in 1..Len(sorted) |->
        IF sorted[k].userValue = <<>> THEN EmptyText ELSE sorted[k].userValue]

\* C29: when the formatter displays the answers of a graded completion
\* response, the value it shows for each blank is the value the scorer
\* graded for that blank.
C29_DisplayedIsGraded ==
  [][(/\ pc = "scored"
      /\ pc' = "done"
      /\ question.type \in DOMAIN formatters
      /\ ExtractUserAnswers(response).found
      /\ display'.kind = "value"
      /\ display'.userAnswer # Id("No answer provided"))
     => display'.userAnswer.blanks = GradedForDisplay(question, response)]_vars

\* C30: a completion response stored in the flat form and migrated on
\* loading is scored as the submitted response: same score, same earned
\* count, same details.
C30_FlatRoundTripScores ==
  (run.phase = "flat" /\ pc = "done") =>
    LET submitted == calculateCompletionScore(question, quiz.response)
    IN /\ result.kind = submitted.kind
       /\ result.kind = "value" =>
            /\ result.score = submitted.score
            /\ result.partialCredit.earned = submitted.partialCredit.earned
            /\ result.partialCredit.details = submitted.partialCredit.details

====
